---- MODULE Spec2Model ----
(***************************************************************************)
(* The radar scope pane of avian (scope-generic.go): the per-aircraft      *)
(* scope-state store, its synchronisation with the event stream, the       *)
(* per-frame Draw sequence and the mouse-gesture handler.                  *)
(*                                                                         *)
(* Aircraft are pointers in the program; here they are positive integers.  *)
(* 1..NumAircraft are the aircraft the server owns, the integers above     *)
(* them are the addresses the ghost generator may return.  Nil is Go's nil.*)
(* Pixel vectors are pairs <<x, y>> of integers.                           *)
(*                                                                         *)
(* The main loop (GetUpdates, Update, wmDrawPanes, drawUI) is one state    *)
(* machine; pc names the function it runs next, and Draw is stepped one    *)
(* call at a time.  SpecSync, SpecTools, SpecLists, SpecDrag, SpecPointOut, *)
(* SpecLayout, SpecClick, SpecMIT, SpecAlert, SpecModes, SpecHeadings and  *)
(* SpecGhostDrag run it in twelve environments, which differ in what the   *)
(* server sends, how the pane is drawn and what the user does.             *)
(* rs.AutomaticDatablockLayout is true in SpecLayout, SpecClick and        *)
(* SpecHeadings, whose aircraft have window positions (scene), is switched *)
(* by the user in SpecModes, and is false in the others.  In SpecMIT and   *)
(* SpecAlert the server's aircraft have places, altitudes and headings     *)
(* (traffic), from which the conflicts and the arrival order follow;       *)
(* SpecAlert has a clock.  SpecGhostDrag starts with the CRDA on.          *)
(* SpecPanes draws no frame: it activates, deactivates and duplicates the  *)
(* panes of a display tree and follows their event-stream subscriptions.   *)
(***************************************************************************)
EXTENDS Integers, Sequences, FiniteSets, TLC

\* ---------------------------------------------------------------- bounds
NumAircraft == 3
Unit == 4
TextW == 24
TextH == 12
MaxGhosts == 2
MaxBatch == 2
MaxEntries == 3
MaxOffset == 40

Nil == 0

RealAircraft == 1..NumAircraft
GhostIds == (NumAircraft + 1)..(NumAircraft + MaxGhosts)
Ids == RealAircraft \cup GhostIds

\* the geographic points a shift-click on empty scope space can name
Points == {"p"}

VARIABLES
    aircraft,               \* rs.aircraft: map[*Aircraft]*AircraftScopeState
    ghostAircraft,          \* rs.ghostAircraft: map from legit to their ghost
    acSelectedByDatablock,  \* rs.acSelectedByDatablock
    minSepLines,            \* rs.minSepLines
    rangeBearingLines,      \* rs.rangeBearingLines
    mitList,                \* rs.mitList
    rangeWarnings,          \* rs.rangeWarnings: set of ordered pairs
    CRDAEnabled,            \* rs.CRDAEnabled
    DrawRangeIndicators,    \* rs.DrawRangeIndicators
    selectedAircraft,       \* positionConfig.selectedAircraft
    eventStream,            \* the queue of each subscriber of the event stream
    visibleNow,             \* the aircraft rs.visible(ac) holds of, this frame
    pc,                     \* the function the main loop runs next
    ctx,                    \* the PaneContext of the Draw call in progress
    frameLog,               \* the steps the Draw call in progress has run
    last,                   \* the last handler that acted, with its inputs
    hist,                   \* the last event of each aircraft (history)
    pointedOutAircraft,     \* rs.pointedOutAircraft: the live entries' keys
    scene,                  \* the server's aircraft as the window shows them
    traffic,                \* the server's aircraft: place, altitude, heading
    AutoMIT,                \* rs.AutoMIT
    mitLines,               \* the lines the last drawMIT call added
    clock,                  \* time.Now(), in seconds
    lastRangeNotificationPlayed,    \* rs.lastRangeNotificationPlayed
    alerts,                 \* when the conflict alert was last played (history)
    panes,                  \* the other scope panes of the display trees
    subscriptions,          \* the subscribers the event stream has
    created                 \* the subscriptions each pane made (history)

vars == <<aircraft, ghostAircraft, acSelectedByDatablock, minSepLines,
          rangeBearingLines, mitList, rangeWarnings, CRDAEnabled,
          DrawRangeIndicators, selectedAircraft, eventStream, visibleNow, pc,
          ctx, frameLog, last, hist, pointedOutAircraft, scene, traffic,
          AutoMIT, mitLines, clock, lastRangeNotificationPlayed, alerts,
          panes, subscriptions, created>>

paneVars == <<aircraft, ghostAircraft, acSelectedByDatablock, minSepLines,
              rangeBearingLines, mitList, rangeWarnings>>

\* rs.pointedOutAircraft, which only a PointOutEvent and time change, and
\* the aircraft's positions and headings, which only the server changes
sceneVars == <<pointedOutAircraft, scene>>

\* what drawTools reads and leaves besides rs.rangeWarnings: the server's
\* data on the aircraft, the MIT mode, the clock and the conflict alert
toolVars == <<traffic, AutoMIT, mitLines, clock, lastRangeNotificationPlayed,
              alerts>>

\* the panes of the display trees and their subscriptions, which only
\* Activate, Deactivate and Duplicate change
lifecycleVars == <<panes, subscriptions, created>>

otherVars == <<sceneVars, toolVars, lifecycleVars>>

\* ------------------------------------------------------ slices and maps
Range(s) == {s[i] : i \in 1..Len(s)}

\* the orders a range over a map with the keys S may go in
RECURSIVE Perms(_)
Perms(S) ==
    IF S = {} THEN {<<>>}
    ELSE UNION {{<<x>> \o q : q \in Perms(S \ {x})} : x \in S}

\* FilterSlice(s, pred): the elements pred keeps, in their order; pred is a
\* function from the elements of s to BOOLEAN
FilterSlice(s, pred) == SelectSeq(s, LAMBDA x : pred[x])

\* Find(s, x): index of the first x (0-based in Go; here 1-based, 0 for -1)
Find(s, x) ==
    IF \E i \in 1..Len(s) : s[i] = x
    THEN CHOOSE i \in 1..Len(s) : s[i] = x /\ \A j \in 1..(i - 1) : s[j] # x
    ELSE 0

DeleteSliceElement(s, i) == SubSeq(s, 1, i - 1) \o SubSeq(s, i + 1, Len(s))

MapSet(m, k, v) == [x \in DOMAIN m \cup {k} |-> IF x = k THEN v ELSE m[x]]
MapDelete(m, k) == [x \in DOMAIN m \ {k} |-> m[x]]
EmptyMap == [x \in {} |-> Nil]

\* ------------------------------------------------------------- geometry
\* float32 pixel coordinates are fixed-point integers, Unit to the pixel;
\* a division rounds toward zero.
add2f(a, b) == <<a[1] + b[1], a[2] + b[2]>>
sub2f(a, b) == <<a[1] - b[1], a[2] - b[2]>>
scale2f(a, s) == <<a[1] * s, a[2] * s>>
Zero2 == <<0, 0>>
Px(v) == <<v[1] * Unit, v[2] * Unit>>

Quot(a, b) == IF a >= 0 THEN a \div b ELSE -((-a) \div b)
\* the integer r with r * r <= n < (r + 1) * (r + 1), sought in lo..hi
RECURSIVE SqrtIn(_, _, _)
SqrtIn(n, lo, hi) ==
    IF lo = hi THEN lo
    ELSE LET mid == (lo + hi + 1) \div 2
         IN IF mid * mid <= n THEN SqrtIn(n, mid, hi) ELSE SqrtIn(n, lo, mid - 1)
\* (the root of a 32-bit integer is below 46341)
ISqrt(n) == SqrtIn(n, 0, IF n < 46340 THEN n ELSE 46340)
length2f(v) == ISqrt(v[1] * v[1] + v[2] * v[2])
\* a vector one pixel long in the direction of v
normalize2f(v) ==
    LET l == length2f(v)
    IN IF l = 0 THEN Zero2 ELSE <<Quot(v[1] * Unit, l), Quot(v[2] * Unit, l)>>

Extent2D(p0, p1) == [p0 |-> p0, p1 |-> p1]
ZeroExtent == Extent2D(Zero2, Zero2)
Expand(e, d) == Extent2D(sub2f(e.p0, <<d, d>>), add2f(e.p1, <<d, d>>))
Center(e) == <<Quot(e.p0[1] + e.p1[1], 2), Quot(e.p0[2] + e.p1[2], 2)>>
Offset(e, v) == Extent2D(add2f(e.p0, v), add2f(e.p1, v))
distance2f(a, b) == length2f(sub2f(a, b))
\* the two boxes share a point; the edges belong to a box
Overlaps(a, b) ==
    /\ a.p1[1] >= b.p0[1] /\ a.p0[1] <= b.p1[1]
    /\ a.p1[2] >= b.p0[2] /\ a.p0[2] <= b.p1[2]
Inside(e, pt) ==
    /\ pt[1] >= e.p0[1] /\ pt[1] <= e.p1[1]
    /\ pt[2] >= e.p0[2] /\ pt[2] <= e.p1[2]

\* &AircraftScopeState{isGhost: g}: every other field has Go's zero value
NewAircraftScopeState(g) ==
    [isGhost |-> g,
     datablockAutomaticOffset |-> Zero2,
     datablockManualOffset |-> Zero2,
     datablockTextCurrent |-> FALSE,
     datablockBounds |-> ZeroExtent]

\* ------------------------------------------------------- the event stream
\* One queue per subscriber: "rs" is the radar scope pane (rs.eventsId),
\* "pc" the position config (pc.eventsId).  Post delivers to every queue.
Subscribers == {"rs", "pc"}
Post(es, ev) == [s \in Subscribers |-> Append(es[s], ev)]
PostAll(es, evs) == [s \in Subscribers |-> es[s] \o evs]

Event(t, a) == [type |-> t, ac |-> a]
ServerEvents(acs) == {Event(t, a) : t \in {"Added", "Removed", "Modified"}, a \in acs}

RECURSIVE SeqsUpTo(_, _)
SeqsUpTo(S, n) ==
    IF n = 0 THEN {<<>>}
    ELSE LET shorter == SeqsUpTo(S, n - 1)
         IN shorter \cup {Append(q, x) : q \in {r \in shorter : Len(r) = n - 1}, x \in S}

\* ----------------------------------------------------- the ghost generator
\* Aircraft some variable of the program still points at.  A ghost the
\* generator allocates is a new object: its address is none of these.
Referenced ==
    DOMAIN aircraft
    \cup {ghostAircraft[a] : a \in DOMAIN ghostAircraft}
    \cup {acSelectedByDatablock, selectedAircraft}
    \cup Range(mitList)
    \cup UNION {{l[1], l[2]} : l \in Range(minSepLines)}
    \cup {l.ac : l \in Range(rangeBearingLines)}
    \cup UNION {{p[1], p[2]} : p \in rangeWarnings}
    \cup {e.ac : e \in Range(eventStream["rs"]) \cup Range(eventStream["pc"])}
    \cup {r[2] : r \in hist.removed}

SetMin(S) == CHOOSE x \in S : \A y \in S : x <= y

\* CRDAConfig.GetGhost(ac): a newly allocated ghost aircraft, or nil.  Which
\* free address the allocator hands out is immaterial: the lowest is taken.
GetGhost ==
    LET free == GhostIds \ Referenced
    IN {Nil} \cup (IF free = {} THEN {} ELSE {SetMin(free)})

\* ---------------------------------------------------------- processEvents
Snapshot ==
    [aircraft |-> aircraft,
     ghostAircraft |-> ghostAircraft,
     acSelectedByDatablock |-> acSelectedByDatablock,
     minSepLines |-> minSepLines,
     rangeBearingLines |-> rangeBearingLines,
     mitList |-> mitList,
     selectedAircraft |-> selectedAircraft,
     eventStream |-> eventStream,
     toggled |-> hist.toggled,
     laidOut |-> hist.laidOut]

NoSnapshot ==
    [aircraft |-> EmptyMap,
     ghostAircraft |-> EmptyMap,
     acSelectedByDatablock |-> Nil,
     minSepLines |-> <<>>,
     rangeBearingLines |-> <<>>,
     mitList |-> <<>>,
     selectedAircraft |-> Nil,
     eventStream |-> [s \in Subscribers |-> <<>>],
     toggled |-> <<>>,
     laidOut |-> FALSE]

NoMouse ==
    [dragging |-> FALSE, dragDelta |-> Zero2, clicked |-> FALSE, near |-> Nil,
     inside |-> Nil, shift |-> FALSE, control |-> FALSE, point |-> "p"]

\* what a run of the automatic layout did: the offsets it left, the labels
\* its first and second pass placed, how its two loops ended, the
\* datablockBounds it ended with, and the steps its pull-in loop accepted,
\* each with the automatic offsets right after it
NoRun ==
    [auto |-> EmptyMap, manual |-> {}, greedy |-> {}, iterations |-> 0,
     passes |-> 0, done |-> FALSE, bounds |-> EmptyMap, steps |-> {}]

\* what `last` records of the handler that acted last: its name, the
\* aircraft of its event, the inputs it read and the pane as it found it
\* what a call of drawMIT did in automatic mode: the arrivals in the order
\* it scanned them, and for each the candidate its scan ended with
NoMIT == [arr |-> <<>>, chosen |-> {}]

NoLast ==
    [op |-> "none", ac |-> Nil, ghost |-> Nil, onGround |-> FALSE,
     mouse |-> NoMouse, conflicts |-> {}, run |-> NoRun, mit |-> NoMIT,
     clipboard |-> <<>>, pre |-> NoSnapshot]

\* case *AddedAircraftEvent; g is what GetGhost returns when it is called.
\* AddedStore and AddedGhosts are rs.aircraft and rs.ghostAircraft after it.
AddedStore(store, crda, a, g) ==
    LET withAc == MapSet(store, a, NewAircraftScopeState(FALSE))
    IN IF crda /\ g # Nil
       THEN MapSet(withAc, g, NewAircraftScopeState(TRUE))
       ELSE withAc

AddedGhosts(ghosts, crda, a, g) ==
    IF crda /\ g # Nil THEN MapSet(ghosts, a, g) ELSE ghosts

\* AddedAircraftEvent without `rs.aircraft[v.ac] = &AircraftScopeState{}`
AddedAircraftEvent_NoState(a, g) ==
    /\ aircraft' = IF CRDAEnabled /\ g # Nil
                   THEN MapSet(aircraft, g, NewAircraftScopeState(TRUE))
                   ELSE aircraft
    /\ ghostAircraft' = AddedGhosts(ghostAircraft, CRDAEnabled, a, g)
    /\ UNCHANGED <<acSelectedByDatablock, minSepLines, rangeBearingLines,
                   mitList, rangeWarnings>>

AddedAircraftEvent(a, g) ==
    /\ aircraft' = AddedStore(aircraft, CRDAEnabled, a, g)
    /\ ghostAircraft' = AddedGhosts(ghostAircraft, CRDAEnabled, a, g)
    /\ UNCHANGED <<acSelectedByDatablock, minSepLines, rangeBearingLines,
                   mitList, rangeWarnings>>

\* RemovedAircraftEvent taking the aircraft out of rs.mitList by moving the
\* last element into its place
RemovedAircraftEvent_SwapDelete(a) ==
    LET noGhost == IF a \in DOMAIN ghostAircraft
                   THEN MapDelete(aircraft, ghostAircraft[a])
                   ELSE aircraft
        idx == Find(mitList, a)
    IN /\ aircraft' = MapDelete(noGhost, a)
       /\ ghostAircraft' = MapDelete(ghostAircraft, a)
       /\ acSelectedByDatablock' =
              IF acSelectedByDatablock = a THEN Nil ELSE acSelectedByDatablock
       /\ minSepLines' =
              LET keep == [msa \in Range(minSepLines) |-> msa[1] # a /\ msa[2] # a]
              IN FilterSlice(minSepLines, keep)
       /\ rangeBearingLines' =
              LET keep == [rbl \in Range(rangeBearingLines) |-> rbl.ac # a]
              IN FilterSlice(rangeBearingLines, keep)
       /\ mitList' =
              IF idx = 0 THEN mitList
              ELSE SubSeq([mitList EXCEPT ![idx] = mitList[Len(mitList)]],
                          1, Len(mitList) - 1)
       /\ UNCHANGED rangeWarnings

\* RemovedAircraftEvent without `delete(rs.aircraft, ghost)`
RemovedAircraftEvent_KeepsGhost(a) ==
    /\ aircraft' = MapDelete(aircraft, a)
    /\ ghostAircraft' = MapDelete(ghostAircraft, a)
    /\ acSelectedByDatablock' =
           IF acSelectedByDatablock = a THEN Nil ELSE acSelectedByDatablock
    /\ minSepLines' =
           LET keep == [msa \in Range(minSepLines) |-> msa[1] # a /\ msa[2] # a]
           IN FilterSlice(minSepLines, keep)
    /\ rangeBearingLines' =
           LET keep == [rbl \in Range(rangeBearingLines) |-> rbl.ac # a]
           IN FilterSlice(rangeBearingLines, keep)
    /\ mitList' =
           LET keep == [ac \in Range(mitList) |-> ac # a]
           IN FilterSlice(mitList, keep)
    /\ UNCHANGED rangeWarnings

\* case *RemovedAircraftEvent
RemovedAircraftEvent(a) ==
    LET noGhost == IF a \in DOMAIN ghostAircraft
                   THEN MapDelete(aircraft, ghostAircraft[a])
                   ELSE aircraft
    IN /\ aircraft' = MapDelete(noGhost, a)
       /\ ghostAircraft' = MapDelete(ghostAircraft, a)
       /\ acSelectedByDatablock' =
              IF acSelectedByDatablock = a THEN Nil ELSE acSelectedByDatablock
       /\ minSepLines' =
              LET keep == [msa \in Range(minSepLines) |-> msa[1] # a /\ msa[2] # a]
              IN FilterSlice(minSepLines, keep)
       /\ rangeBearingLines' =
              LET keep == [rbl \in Range(rangeBearingLines) |-> rbl.ac # a]
              IN FilterSlice(rangeBearingLines, keep)
       /\ mitList' =
              LET keep == [ac \in Range(mitList) |-> ac # a]
              IN FilterSlice(mitList, keep)
       /\ UNCHANGED rangeWarnings

\* ModifiedAircraftEvent without `&& v.ac.OnGround()`
ModifiedAircraftEvent_IgnoresGround(a, g, og) ==
    LET hadGhost == CRDAEnabled /\ a \in DOMAIN ghostAircraft
        noOld == IF hadGhost THEN MapDelete(aircraft, ghostAircraft[a])
                 ELSE aircraft
        ghostsNoOld == IF hadGhost THEN MapDelete(ghostAircraft, a)
                       ELSE ghostAircraft
        withAc == IF a \notin DOMAIN noOld
                  THEN MapSet(noOld, a, NewAircraftScopeState(FALSE))
                  ELSE [noOld EXCEPT ![a].datablockTextCurrent = FALSE]
        mitIdx == Find(mitList, a)
        haveGhost == CRDAEnabled /\ g # Nil
    IN /\ aircraft' = IF haveGhost
                      THEN MapSet(withAc, g, NewAircraftScopeState(TRUE))
                      ELSE withAc
       /\ ghostAircraft' = IF haveGhost THEN MapSet(ghostsNoOld, a, g)
                           ELSE ghostsNoOld
       /\ mitList' = IF mitIdx # 0
                     THEN DeleteSliceElement(mitList, mitIdx)
                     ELSE mitList
       /\ UNCHANGED <<acSelectedByDatablock, minSepLines, rangeBearingLines,
                      rangeWarnings>>

\* ModifiedAircraftEvent without the `if rs.aircraft[v.ac] == nil` branch
ModifiedAircraftEvent_NoCreate(a, g, og) ==
    LET hadGhost == CRDAEnabled /\ a \in DOMAIN ghostAircraft
        noOld == IF hadGhost THEN MapDelete(aircraft, ghostAircraft[a])
                 ELSE aircraft
        ghostsNoOld == IF hadGhost THEN MapDelete(ghostAircraft, a)
                       ELSE ghostAircraft
        withAc == IF a \notin DOMAIN noOld THEN noOld
                  ELSE [noOld EXCEPT ![a].datablockTextCurrent = FALSE]
        mitIdx == Find(mitList, a)
        haveGhost == CRDAEnabled /\ g # Nil
    IN /\ aircraft' = IF haveGhost
                      THEN MapSet(withAc, g, NewAircraftScopeState(TRUE))
                      ELSE withAc
       /\ ghostAircraft' = IF haveGhost THEN MapSet(ghostsNoOld, a, g)
                           ELSE ghostsNoOld
       /\ mitList' = IF mitIdx # 0 /\ og
                     THEN DeleteSliceElement(mitList, mitIdx)
                     ELSE mitList
       /\ UNCHANGED <<acSelectedByDatablock, minSepLines, rangeBearingLines,
                      rangeWarnings>>

\* the Modified case without "always start out by removing the old ghost"
ModifiedAircraftEvent_KeepsOldGhost(a, g, og) ==
    LET withAc == IF a \notin DOMAIN aircraft
                  THEN MapSet(aircraft, a, NewAircraftScopeState(FALSE))
                  ELSE [aircraft EXCEPT ![a].datablockTextCurrent = FALSE]
        mitIdx == Find(mitList, a)
        haveGhost == CRDAEnabled /\ g # Nil
    IN /\ aircraft' = IF haveGhost
                      THEN MapSet(withAc, g, NewAircraftScopeState(TRUE))
                      ELSE withAc
       /\ ghostAircraft' = IF haveGhost THEN MapSet(ghostAircraft, a, g)
                           ELSE ghostAircraft
       /\ mitList' = IF mitIdx # 0 /\ og
                     THEN DeleteSliceElement(mitList, mitIdx)
                     ELSE mitList
       /\ UNCHANGED <<acSelectedByDatablock, minSepLines, rangeBearingLines,
                      rangeWarnings>>

\* case *ModifiedAircraftEvent; og is v.ac.OnGround()
ModifiedAircraftEvent(a, g, og) ==
    LET hadGhost == CRDAEnabled /\ a \in DOMAIN ghostAircraft
        \* always start out by removing the old ghost
        noOld == IF hadGhost THEN MapDelete(aircraft, ghostAircraft[a])
                 ELSE aircraft
        ghostsNoOld == IF hadGhost THEN MapDelete(ghostAircraft, a)
                       ELSE ghostAircraft
        withAc == IF a \notin DOMAIN noOld
                  THEN MapSet(noOld, a, NewAircraftScopeState(FALSE))
                  ELSE [noOld EXCEPT ![a].datablockTextCurrent = FALSE]
        mitIdx == Find(mitList, a)
        haveGhost == CRDAEnabled /\ g # Nil
    IN /\ aircraft' = IF haveGhost
                      THEN MapSet(withAc, g, NewAircraftScopeState(TRUE))
                      ELSE withAc
       /\ ghostAircraft' = IF haveGhost THEN MapSet(ghostsNoOld, a, g)
                           ELSE ghostsNoOld
       /\ mitList' = IF mitIdx # 0 /\ og
                     THEN DeleteSliceElement(mitList, mitIdx)
                     ELSE mitList
       /\ UNCHANGED <<acSelectedByDatablock, minSepLines, rangeBearingLines,
                      rangeWarnings>>

\* ------------------------------------------------------------- the Draw call
\* RadarScopePane.Draw calls these in this order (the calls that only emit
\* draw commands are left out); drawTools is drawRangeIndicators, drawMIT.
\* Draw with layoutDatablocks called ahead of drawTools
DrawOrder_LayoutFirst ==
    <<"processEvents", "updateDatablockTextAndBounds", "layoutDatablocks",
      "drawTools", "consumeMouseEvents">>

DrawOrder ==
    <<"processEvents", "drawTools", "updateDatablockTextAndBounds",
      "layoutDatablocks", "consumeMouseEvents">>

StepAfter(step) ==
    LET i == CHOOSE k \in 1..Len(DrawOrder) : DrawOrder[k] = step
    IN IF i = Len(DrawOrder) THEN "drawUI" ELSE DrawOrder[i + 1]

\* a step of Draw ends: the call moves on, and the log records `names`
Ran(step, names) ==
    /\ pc' = StepAfter(step)
    /\ frameLog' = frameLog \o names

visible(ac) == ac \in visibleNow

\* History: since the store was last empty by construction, has the pane
\* seen only Added and Removed events, no Added for an aircraft it had a
\* state for (`clean`); and if so, which event each aircraft had last.
\* And `removed`: the aircraft a Removed event of the processEvents call in
\* progress found with a ghost, each with that ghost, less those a later
\* event of the call names again.
\* And `toggled`: <<c, l>> when the step that changed rs.mitList last
\* appended c to the list l, <<>> otherwise.
\* And `posted`: the aircraft the last SelectedAircraftEvent posted names
\* (nil for none), as a set; empty while none was posted.
\* And `laidOut`: the automatic layout has run, and no event, no drag and
\* no reload of the store has come since.
NoEvents == [a \in RealAircraft |-> "none"]

MITHistory ==
    IF mitList' = mitList THEN hist.toggled
    ELSE IF Len(mitList') = Len(mitList) + 1
            /\ SubSeq(mitList', 1, Len(mitList)) = mitList
    THEN <<mitList'[Len(mitList')], mitList>>
    ELSE <<>>

PostedHistory ==
    LET old == eventStream["pc"]
        new == eventStream'["pc"]
    IN IF Len(new) > Len(old) /\ new[Len(new)].type = "Selected"
       THEN {new[Len(new)].ac}
       ELSE hist.posted

Recorded(ok, a, type, removed) ==
    IF hist.clean /\ ok
    THEN [clean |-> TRUE, lastEvent |-> [hist.lastEvent EXCEPT ![a] = type],
          removed |-> removed, toggled |-> MITHistory, posted |-> hist.posted,
          laidOut |-> FALSE]
    ELSE [clean |-> FALSE, lastEvent |-> NoEvents, removed |-> removed,
          toggled |-> MITHistory, posted |-> hist.posted, laidOut |-> FALSE]
NotOf(a) == {r \in hist.removed : r[1] # a}

\* one iteration of the loop of processEvents over es.Get(rs.eventsId)
ProcessAdded ==
    /\ pc = "processEvents"
    /\ eventStream["rs"] # <<>>
    /\ Head(eventStream["rs"]).type = "Added"
    /\ LET a == Head(eventStream["rs"]).ac
       IN \E g \in (IF CRDAEnabled THEN GetGhost ELSE {Nil}) :
            /\ AddedAircraftEvent(a, g)
            /\ last' = [NoLast EXCEPT !.op = "Added", !.ac = a, !.ghost = g,
                                      !.pre = Snapshot]
            /\ hist' = Recorded(a \notin DOMAIN aircraft, a, "Added", NotOf(a))
    /\ eventStream' = [eventStream EXCEPT !["rs"] = Tail(@)]
    /\ UNCHANGED <<CRDAEnabled, DrawRangeIndicators, selectedAircraft,
                   visibleNow, pc, ctx, frameLog>>
    /\ UNCHANGED otherVars

ProcessRemoved ==
    /\ pc = "processEvents"
    /\ eventStream["rs"] # <<>>
    /\ Head(eventStream["rs"]).type = "Removed"
    /\ LET a == Head(eventStream["rs"]).ac
       IN /\ RemovedAircraftEvent(a)
          /\ last' = [NoLast EXCEPT !.op = "Removed", !.ac = a, !.pre = Snapshot]
          /\ hist' = Recorded(TRUE, a, "Removed",
                               IF a \in DOMAIN ghostAircraft
                               THEN hist.removed \cup {<<a, ghostAircraft[a]>>}
                               ELSE hist.removed)
    /\ eventStream' = [eventStream EXCEPT !["rs"] = Tail(@)]
    /\ UNCHANGED <<CRDAEnabled, DrawRangeIndicators, selectedAircraft,
                   visibleNow, pc, ctx, frameLog>>
    /\ UNCHANGED otherVars

ProcessModified ==
    /\ pc = "processEvents"
    /\ eventStream["rs"] # <<>>
    /\ Head(eventStream["rs"]).type = "Modified"
    /\ LET a == Head(eventStream["rs"]).ac
       IN \E g \in (IF CRDAEnabled THEN GetGhost ELSE {Nil}), og \in BOOLEAN :
            /\ ModifiedAircraftEvent(a, g, og)
            /\ last' = [NoLast EXCEPT !.op = "Modified", !.ac = a, !.ghost = g,
                                      !.onGround = og, !.pre = Snapshot]
            /\ hist' = Recorded(FALSE, a, "Modified", NotOf(a))
    /\ eventStream' = [eventStream EXCEPT !["rs"] = Tail(@)]
    /\ UNCHANGED <<CRDAEnabled, DrawRangeIndicators, selectedAircraft,
                   visibleNow, pc, ctx, frameLog>>
    /\ UNCHANGED otherVars

\* the switch of processEvents has no case for a SelectedAircraftEvent
ProcessOther ==
    /\ pc = "processEvents"
    /\ eventStream["rs"] # <<>>
    /\ Head(eventStream["rs"]).type = "Selected"
    /\ eventStream' = [eventStream EXCEPT !["rs"] = Tail(@)]
    /\ last' = NoLast
    /\ UNCHANGED <<paneVars, CRDAEnabled, DrawRangeIndicators, selectedAircraft,
                   visibleNow, pc, ctx, frameLog, hist>>
    /\ UNCHANGED otherVars

\* case *PointOutEvent: rs.pointedOutAircraft.Add(v.ac, v.controller, 5 s)
ProcessPointOut ==
    /\ pc = "processEvents"
    /\ eventStream["rs"] # <<>>
    /\ Head(eventStream["rs"]).type = "PointOut"
    /\ pointedOutAircraft' = pointedOutAircraft \cup {Head(eventStream["rs"]).ac}
    /\ eventStream' = [eventStream EXCEPT !["rs"] = Tail(@)]
    /\ last' = [NoLast EXCEPT !.op = "PointOut",
                              !.ac = Head(eventStream["rs"]).ac,
                              !.pre = Snapshot]
    /\ UNCHANGED <<paneVars, CRDAEnabled, DrawRangeIndicators, selectedAircraft,
                   visibleNow, pc, ctx, frameLog, hist, scene>>
    /\ UNCHANGED <<toolVars, lifecycleVars>>

\* the loop is over.  What rs.visible says of each tracked aircraft for the
\* rest of this frame is the server's data: any subset of the store.
ProcessEventsDone(allVisible) ==
    /\ pc = "processEvents"
    /\ eventStream["rs"] = <<>>
    /\ \E vis \in (IF allVisible THEN {DOMAIN aircraft}
                   ELSE SUBSET DOMAIN aircraft) : visibleNow' = vis
    /\ Ran("processEvents", <<"processEvents">>)
    /\ last' = NoLast
    /\ UNCHANGED <<paneVars, CRDAEnabled, DrawRangeIndicators, selectedAircraft,
                   eventStream, ctx, hist>>
    /\ UNCHANGED otherVars

\* ---------------------------------------------------------------- drawTools
Pairs == {{x, y} : x, y \in Ids} \ {{x} : x \in Ids}

\* GetConflicts(aircraft, rs.RangeLimits): the pairs among `acs` that are
\* inside a warning or violation limit; `close` is the set of pairs of
\* aircraft the server's positions put that close together this frame.
GetConflicts(acs, close) == {p \in close : p \subseteq acs}

BothOrders(pairs) == {<<x, y>> \in Ids \X Ids : {x, y} \in pairs /\ x # y}

\* FilterMap(rs.aircraft, !state.isGhost && rs.visible(ac))
ConflictCandidates ==
    {ac \in DOMAIN aircraft : ~aircraft[ac].isGhost /\ visible(ac)}

\* the server's data on its aircraft: x is the place, in nautical miles
\* along a line that starts at the arrival airports; arrival is what the
\* filter of getDistanceSortedArrivals asks besides the airport (not on the
\* ground, track not lost, a flight plan, a valid position)
NoTraffic == EmptyMap

\* the airports ticked under "Arrival airports for auto MIT"
AutoMITAirports == {"A", "B"}
\* database.airports[...].Location
AirportLocation == 0

\* rs.RangeLimits: one rule, lateral limits in nm and vertical ones in feet
RangeLimits ==
    [WarningLateral |-> 5, WarningVertical |-> 2000,
     ViolationLateral |-> 3, ViolationVertical |-> 1000]

Abs(n) == IF n < 0 THEN -n ELSE n
nmdistance2ll(p, q) == Abs(p - q)
\* the bearing from p to q: east, west, or north for no way at all
headingp2ll(p, q) == IF q > p THEN 90 ELSE IF q < p THEN 270 ELSE 0
headingDifference(a, b) ==
    LET d == Abs(a - b) IN IF d > 180 THEN 360 - d ELSE d

\* the lateral and the vertical distance of the two aircraft of a pair
Lateral(p) ==
    LET a == CHOOSE a \in p : TRUE
        b == CHOOSE b \in p \ {a} : TRUE
    IN nmdistance2ll(traffic[a].x, traffic[b].x)
Vertical(p) ==
    LET a == CHOOSE a \in p : TRUE
        b == CHOOSE b \in p \ {a} : TRUE
    IN Abs(traffic[a].altitude - traffic[b].altitude)

\* GetConflicts sorts a pair under the violation limits with the
\* violations, and a pair under the warning limits only with the warnings
\* a pair counted as a violation only when less than 2 nm apart
IsViolation_Under2(p) ==
    /\ p \subseteq DOMAIN traffic
    /\ Lateral(p) < 2
    /\ Vertical(p) < RangeLimits.ViolationVertical
IsViolation(p) ==
    /\ p \subseteq DOMAIN traffic
    /\ Lateral(p) < RangeLimits.ViolationLateral
    /\ Vertical(p) < RangeLimits.ViolationVertical
IsWarning(p) ==
    /\ p \subseteq DOMAIN traffic
    /\ ~IsViolation(p)
    /\ Lateral(p) < RangeLimits.WarningLateral
    /\ Vertical(p) < RangeLimits.WarningVertical
\* the pairs the server's data puts inside a limit
TrafficConflicts == {p \in Pairs : IsViolation(p) \/ IsWarning(p)}
Violations(confl) == {p \in confl : IsViolation(p)}
Warnings(confl) == confl \ Violations(confl)

\* time.Since(rs.lastRangeNotificationPlayed) > 3*time.Second
AlertInterval == 3
MaxClock == 8
\* the zero time.Time of a new pane: longer ago than any interval
NeverPlayed == -4
\* the conflict alert was played every time without this test
AlertDue_Always(violations) == violations # {}
AlertDue(violations) ==
    /\ violations # {}
    /\ clock - lastRangeNotificationPlayed > AlertInterval

\* the last two times the alert was played
LastTwo(s) == IF Len(s) > 2 THEN Tail(s) ELSE s

InitTools(tr) ==
    /\ traffic = tr
    /\ AutoMIT = FALSE
    /\ mitLines = {}
    /\ clock = 0
    /\ lastRangeNotificationPlayed = NeverPlayed
    /\ alerts = <<>>

\* only one order of each pair went into rs.rangeWarnings
drawRangeIndicators_OneOrder(close) ==
    IF ~DrawRangeIndicators
    THEN UNCHANGED <<rangeWarnings, clock, lastRangeNotificationPlayed, alerts>>
    ELSE LET confl == GetConflicts(ConflictCandidates, close)
         IN /\ rangeWarnings' = {w \in BothOrders(confl) : w[1] < w[2]}
            /\ UNCHANGED <<clock, lastRangeNotificationPlayed, alerts>>
drawRangeIndicators(close) ==
    IF ~DrawRangeIndicators
    THEN UNCHANGED <<rangeWarnings, clock, lastRangeNotificationPlayed, alerts>>
    ELSE LET confl == GetConflicts(ConflictCandidates, close)
         IN \* Reset it each frame
            /\ rangeWarnings' = BothOrders(confl)
            \* Audio alert; time.Now() may read later than time.Since did
            /\ IF AlertDue(Violations(confl))
               THEN /\ alerts' = LastTwo(Append(alerts, clock))
                    /\ \E now \in {clock, clock + 1} :
                         /\ now <= MaxClock
                         /\ clock' = now
                         /\ lastRangeNotificationPlayed' = now
               ELSE UNCHANGED <<clock, lastRangeNotificationPlayed, alerts>>

\* ----------------------------------------------------------------- drawMIT
\* inTrail(front, back) of drawMIT
inTrail(front, back) ==
    LET dalt == traffic[back].altitude - traffic[front].altitude
        backHeading == traffic[back].heading
        angle == headingp2ll(traffic[back].x, traffic[front].x)
        diff == headingDifference(backHeading, angle)
    IN diff < 150 /\ dalt < 3000

\* the aircraft server.GetFilteredAircraft hands getDistanceSortedArrivals
Arrivals ==
    {ac \in DOMAIN traffic :
        traffic[ac].arrival /\ traffic[ac].airport \in AutoMITAirports}
\* dist + float32(ac.Altitude())/300.  (the altitudes are multiples of 300)
sortDistance(ac) ==
    nmdistance2ll(AirportLocation, traffic[ac].x) + traffic[ac].altitude \div 300
\* sort.Slice(arr, sortDistance <): ascending; arrivals of one sortDistance
\* come in whatever order the server's enumeration and the sort, which is
\* not stable, leave them in
getDistanceSortedArrivals ==
    {arr \in Perms(Arrivals) :
        \A i \in 1..(Len(arr) - 1) :
            sortDistance(arr[i]) <= sortDistance(arr[i + 1])}

\* for j := 0; j < len(arr); j++: the candidate the scan for arr[i] ends
\* with, Nil when closestSet stays false
RECURSIVE ScanFrom(_, _, _, _, _)
ScanFrom(arr, i, j, closest, minDist) ==
    IF j > Len(arr) THEN closest
    ELSE LET ac == arr[i]
             ac2 == arr[j]
             dist == nmdistance2ll(traffic[ac].x, traffic[ac2].x)
         IN IF i = j \/ traffic[ac2].airport # traffic[ac].airport
            THEN ScanFrom(arr, i, j + 1, closest, minDist)
            ELSE IF dist < minDist /\ inTrail(arr[i], arr[j])
                 THEN ScanFrom(arr, i, j + 1, ac2, dist)
                 ELSE ScanFrom(arr, i, j + 1, closest, minDist)
\* the scan stopped at the first candidate it accepted
ClosestInTrail_First(arr, i) ==
    LET ok == {j \in 1..Len(arr) : ScanFrom(<<arr[i], arr[j]>>, 1, 1, Nil, 20) # Nil}
    IN IF ok = {} THEN Nil ELSE arr[CHOOSE j \in ok : \A k \in ok : j <= k]
ClosestInTrail(arr, i) == ScanFrom(arr, i, 1, Nil, 20)

\* for i := 1; i < len(arr); i++: the pairs <<ac, closest>> with closestSet
AutoChosen(arr) ==
    {<<arr[i], ClosestInTrail(arr, i)>> : i \in 2..Len(arr)}
        \ {<<arr[i], Nil>> : i \in 2..Len(arr)}

\* no pair was skipped for its range warning
Annotated_All(pairs, warnings) == pairs
\* the pairs annotatedLine is called for: those with no range warning
Annotated(pairs, warnings) == {pr \in pairs : pr \notin warnings}

\* the consecutive pairs <<front, trailing>> of rs.mitList
ManualPairs(list) == {<<list[i - 1], list[i]>> : i \in 2..Len(list)}

\* drawMIT; warnings is rs.rangeWarnings as drawRangeIndicators left it
drawMIT(arr, warnings) ==
    IF AutoMIT /\ Len(mitList) = 0
    THEN Annotated(AutoChosen(arr), warnings)
    ELSE Annotated(ManualPairs(mitList), warnings)

drawTools(Close) ==
    /\ pc = "drawTools"
    /\ \E close \in Close : \E arr \in getDistanceSortedArrivals :
         /\ IF ctx.thumbnail
            THEN /\ UNCHANGED <<rangeWarnings, mitLines, clock,
                                lastRangeNotificationPlayed, alerts>>
                 /\ Ran("drawTools", <<>>)
                 /\ last' = [NoLast EXCEPT !.op = "drawTools",
                                           !.conflicts = close]
            ELSE /\ drawRangeIndicators(close)
                 /\ mitLines' = drawMIT(arr, rangeWarnings')
                 /\ Ran("drawTools", <<"drawRangeIndicators", "drawMIT">>)
                 /\ last' = [NoLast EXCEPT
                                !.op = "drawTools", !.conflicts = close,
                                !.mit = IF AutoMIT /\ Len(mitList) = 0
                                        THEN [arr |-> arr,
                                              chosen |-> AutoChosen(arr)]
                                        ELSE NoMIT]
    /\ UNCHANGED <<aircraft, ghostAircraft, acSelectedByDatablock, minSepLines,
                   rangeBearingLines, mitList, CRDAEnabled, DrawRangeIndicators,
                   selectedAircraft, eventStream, visibleNow, ctx, hist>>
    /\ UNCHANGED <<sceneVars, traffic, AutoMIT, lifecycleVars>>

\* ------------------------------------------- updateDatablockTextAndBounds
\* rs.datablockFont.BoundText of the two texts: bx by by pixels
TextBounds == Extent2D(Px(<<0, -TextH>>), Px(<<TextW, 0>>))

UpdatedText(state) ==
    IF ~state.datablockTextCurrent
    THEN [state EXCEPT !.datablockTextCurrent = TRUE, !.datablockBounds = TextBounds]
    ELSE state

updateDatablockTextAndBounds ==
    /\ pc = "updateDatablockTextAndBounds"
    /\ aircraft' = [ac \in DOMAIN aircraft |->
                       IF visible(ac) THEN UpdatedText(aircraft[ac]) ELSE aircraft[ac]]
    /\ Ran("updateDatablockTextAndBounds", <<"updateDatablockTextAndBounds">>)
    /\ last' = NoLast
    /\ UNCHANGED <<ghostAircraft, acSelectedByDatablock, minSepLines,
                   rangeBearingLines, mitList, rangeWarnings, CRDAEnabled,
                   DrawRangeIndicators, selectedAircraft, eventStream,
                   visibleNow, ctx, hist>>
    /\ UNCHANGED otherVars

\* ------------------------------------------------------- layoutDatablocks
\* datablockConnectP(bbox, heading): the point of the box put on the track,
\* and whether it is a corner
datablockConnectP(bbox, heading) ==
    LET center == Center(bbox)
        h1 == heading + 15
        h2 == IF h1 < 0 THEN h1 + 360 ELSE h1
        h == IF h2 > 360 THEN h2 - 360 ELSE h2
    IN IF h < 30 THEN <<<<bbox.p0[1], center[2]>>, FALSE>>
       ELSE IF h < 90 THEN <<<<bbox.p0[1], bbox.p1[2]>>, TRUE>>
       ELSE IF h < 120 THEN <<<<center[1], bbox.p1[2]>>, FALSE>>
       ELSE IF h < 180 THEN <<<<bbox.p0[1], bbox.p0[2]>>, TRUE>>
       ELSE IF h < 210 THEN <<<<bbox.p0[1], center[2]>>, FALSE>>
       ELSE IF h < 270 THEN <<<<bbox.p0[1], bbox.p1[2]>>, TRUE>>
       ELSE IF h < 300 THEN <<<<center[1], bbox.p0[2]>>, FALSE>>
       ELSE <<<<bbox.p0[1], bbox.p0[2]>>, TRUE>>

\* offsetSelfOnly: heading is ac.Heading() + rs.RotationAngle
offsetSelfOnly(heading, info) ==
    LET bbox == Expand(info.datablockBounds, 5 * Unit)
        connect == datablockConnectP(bbox, heading)
        v == scale2f(connect[1], -1)
    IN IF ~connect[2] THEN add2f(v, scale2f(normalize2f(v), 3)) ELSE v

LaidOut(state, heading) ==
    IF state.datablockManualOffset # Zero2
    THEN [state EXCEPT !.datablockAutomaticOffset = Zero2]
    ELSE [state EXCEPT !.datablockAutomaticOffset = offsetSelfOnly(heading, state)]

\* rs.AutomaticDatablockLayout is false: layout just wrt the own track
layoutDatablocks(Headings) ==
    /\ pc = "layoutDatablocks"
    /\ \E hd \in [visibleNow \cap DOMAIN aircraft -> Headings] :
         aircraft' = [ac \in DOMAIN aircraft |->
                         IF visible(ac) THEN LaidOut(aircraft[ac], hd[ac])
                         ELSE aircraft[ac]]
    /\ Ran("layoutDatablocks", <<"layoutDatablocks">>)
    /\ last' = NoLast
    /\ UNCHANGED <<ghostAircraft, acSelectedByDatablock, minSepLines,
                   rangeBearingLines, mitList, rangeWarnings, CRDAEnabled,
                   DrawRangeIndicators, selectedAircraft, eventStream,
                   visibleNow, ctx, hist>>
    /\ UNCHANGED otherVars

\* --------------------------------- layoutDatablocks, automatic layout on
\* AircraftScopeState.WindowDatablockBounds(p)
WindowDatablockBounds(state, pw) ==
    LET db == Offset(state.datablockBounds, pw)
    IN IF state.datablockManualOffset # Zero2
       THEN Offset(db, state.datablockManualOffset)
       ELSE Offset(db, state.datablockAutomaticOffset)

\* the size of ctx.paneExtent, and the iterations of the relaxation loop
PaneWidth == 200
PaneHeight == 200
RelaxIterations == 20
MaxPasses == 120

\* Is it on screen (or getting there?)
OnScreen(pw) ==
    /\ pw[1] > -(100 * Unit) /\ pw[1] < (PaneWidth + 100) * Unit
    /\ pw[2] > -(100 * Unit) /\ pw[2] < (PaneHeight + 100) * Unit

\* the visible aircraft on screen: what the loop over rs.aircraft collects
LaidOutAircraft ==
    {ac \in DOMAIN aircraft : visible(ac) /\ OnScreen(scene[ac].pw)}

\* all the orders of the elements of S
\* sort.Slice(aircraft, Callsign <): the slice after it is in ascending order
\* of callsign; aircraft of one callsign come in whatever order the map
\* iteration and the sort, which is not stable, leave them in
LayoutOrders ==
    {o \in Perms(LaidOutAircraft) :
        \A i \in 1..(Len(o) - 1) : scene[o[i]].callsign <= scene[o[i + 1]].callsign}

\* offsetSelfOnly(ac, state)
Ideal(ac) == offsetSelfOnly(scene[ac].heading, aircraft[ac])

\* state.WindowDatablockBounds(pw).Expand(5) when the automatic offset is auto
PaddedBounds(ac, auto) ==
    Expand(WindowDatablockBounds(
               [aircraft[ac] EXCEPT !.datablockAutomaticOffset = auto],
               scene[ac].pw),
           5 * Unit)

\* (Below, CHOOSE r \in {F(x) : x \in {e}} : TRUE is F(e), with e worked out
\* once.)
\* The locals of one run: auto[ac] is state.datablockAutomaticOffset,
\* bounds[ac] and placed are datablockBounds[i] and placed[i] of the i with
\* aircraft[i] = ac; greedy are those the second pass placed.
\* the first pass that marks no label placed
FirstPass_NothingPlaced(acs) ==
    [auto |-> [ac \in acs |-> aircraft[ac].datablockAutomaticOffset],
     bounds |-> [ac \in acs |-> ZeroExtent],
     placed |-> {},
     greedy |-> {},
     steps |-> {}]

\* First pass: anyone who has a manual offset goes where they go, period.
FirstPass(acs) ==
    LET manual == {ac \in acs : aircraft[ac].datablockManualOffset # Zero2}
    IN [auto |-> [ac \in acs |-> aircraft[ac].datablockAutomaticOffset],
        bounds |-> [ac \in acs |->
                      IF ac \in manual
                      THEN PaddedBounds(ac, aircraft[ac].datablockAutomaticOffset)
                      ELSE ZeroExtent],
        placed |-> manual,
        greedy |-> {},
        steps |-> {}]

\* the second pass's test without any check
allowed_Always(b, L) == TRUE

\* allowed := func(b Extent2D) bool of the second pass
allowed(b, L) == \A j \in L.placed : ~Overlaps(b, L.bounds[j])

\* Second pass: anyone who can be placed without interfering with
\* already-placed ones gets to be in their happy place.
RECURSIVE SecondPass(_, _, _)
SecondPass(L, order, i) ==
    IF i > Len(order) THEN L
    ELSE LET ac == order[i]
             offset == Ideal(ac)
             netOffset == sub2f(offset, L.auto[ac])
             db == Offset(PaddedBounds(ac, L.auto[ac]), netOffset)
         IN IF ac \notin L.placed /\ allowed(db, L)
            THEN CHOOSE r \in
                    {SecondPass(next, order, i + 1) :
                        next \in {[L EXCEPT !.placed = @ \cup {ac},
                                            !.greedy = @ \cup {ac},
                                            !.bounds[ac] = db,
                                            !.auto[ac] = offset]}} : TRUE
            ELSE SecondPass(L, order, i + 1)

\* Third pass, and "Initialize current datablockBounds for all of the
\* unplaced aircraft"
ThirdPass(L) ==
    LET auto == [ac \in DOMAIN L.auto |->
                    IF ac \notin L.placed /\ L.auto[ac] = Zero2
                    THEN Ideal(ac) ELSE L.auto[ac]]
    IN [L EXCEPT !.auto = auto,
                 !.bounds = [ac \in DOMAIN L.auto |->
                                IF ac \in L.placed THEN L.bounds[ac]
                                ELSE PaddedBounds(ac, auto[ac])]]

\* the sum of the unit vectors pushing db away from the boxes of order[j..]
\* that overlap it, the box of ac itself left out
RECURSIVE Repulsion(_, _, _, _, _)
Repulsion(L, order, ac, db, j) ==
    IF j > Len(order) THEN Zero2
    ELSE LET pb == L.bounds[order[j]]
             rest == Repulsion(L, order, ac, db, j + 1)
         IN IF order[j] = ac \/ ~Overlaps(db, pb) THEN rest
            ELSE add2f(normalize2f(sub2f(Center(db), Center(pb))), rest)

\* force = scale2f(force, iterScale), clamped to maxlen = 32
Clamped(sum) ==
    LET force == scale2f(sum, 2)
        maxlen == 32 * Unit
    IN IF length2f(force) > maxlen
       THEN <<Quot(force[1] * maxlen, length2f(force)),
              Quot(force[2] * maxlen, length2f(force))>>
       ELSE force

\* one iteration of the relaxation loop.  The loop writes db back to
\* datablockBounds[i] as it read it: the boxes stay, the offsets move.
RelaxOnce(L, order) ==
    [L EXCEPT !.auto =
        [ac \in DOMAIN L.auto |->
            IF ac \in L.placed THEN L.auto[ac]
            ELSE add2f(L.auto[ac],
                       Clamped(Repulsion(L, order, ac, L.bounds[ac], 1)))]]

\* for iter := 0; iter < 20; iter++
RECURSIVE Relax(_, _, _)
Relax(L, order, iter) ==
    IF iter >= RelaxIterations THEN L
    ELSE CHOOSE r \in {Relax(next, order, iter + 1) :
                          next \in {RelaxOnce(L, order)}} : TRUE

\* if length2f(goBack) < 1 { continue }
CloseEnough(goBack) == length2f(goBack) < Unit

\* the step of the pull-in loop taken away from the ideal offset
PullForce_Away(goBack) == scale2f(normalize2f(goBack), -1)

\* force := normalize2f(goBack)
PullForce(goBack) == normalize2f(goBack)

\* allowed := func(idx int, b Extent2D) bool of the pull-in loop
allowedAt(ac, b, L) ==
    \A j \in DOMAIN L.bounds : j # ac => ~Overlaps(b, L.bounds[j])

\* one pass of the pull-in loop from order[i] on; R.moved is anyMoved
RECURSIVE PullPass(_, _, _)
PullPass(R, order, i) ==
    IF i > Len(order) THEN R
    ELSE LET ac == order[i]
             L == R.L
             goBack == sub2f(Ideal(ac), L.auto[ac])
             force == PullForce(goBack)
             dbMoved == Offset(L.bounds[ac], force)
         IN IF ac \notin L.placed /\ ~CloseEnough(goBack)
               /\ allowedAt(ac, dbMoved, L)
            THEN CHOOSE r \in
                    {PullPass(next, order, i + 1) :
                        next \in {[L |-> [L EXCEPT
                                             !.bounds[ac] = dbMoved,
                                             !.auto[ac] = add2f(L.auto[ac], force),
                                             !.steps = @ \cup
                                                 {[ac |-> ac,
                                                   auto |-> [L.auto EXCEPT ![ac] =
                                                               add2f(L.auto[ac], force)]]}],
                                   moved |-> TRUE]}} : TRUE
            ELSE PullPass(R, order, i + 1)

\* The pull-in loop, for { ...; if !anyMoved { break } }.  S is the locals,
\* the passes made so far and whether the loop has been left.
\* One more pass, unless the loop has been left:
PullStep(S, order) ==
    IF S.done THEN S
    ELSE CHOOSE r \in
            {[L |-> R.L, passes |-> S.passes + 1, done |-> ~R.moved] :
                R \in {PullPass([L |-> S.L, moved |-> FALSE], order, 1)}} : TRUE

\* four more passes
PullSteps(S, order) ==
    CHOOSE r \in
        {PullStep(c, order) :
            c \in {PullStep(b, order) :
                b \in {PullStep(a, order) : a \in {PullStep(S, order)}}}} : TRUE

\* the loop run until it is left, or given up after MaxPasses passes
RECURSIVE PullIn(_, _)
PullIn(S, order) ==
    IF S.done \/ S.passes >= MaxPasses THEN S
    ELSE CHOOSE r \in
            {PullIn(next, order) :
                next \in {PullSteps(mid, order) :
                             mid \in {PullSteps(S, order)}}} : TRUE

\* the else branch of layoutDatablocks on the sorted slice `order`
AutoLayout(order) ==
    CHOOSE run \in
        UNION {{[auto |-> pulled.L.auto,
                 manual |-> greedy.placed \ greedy.greedy,
                 greedy |-> greedy.greedy,
                 iterations |-> RelaxIterations,
                 passes |-> pulled.passes,
                 done |-> pulled.done,
                 bounds |-> pulled.L.bounds,
                 steps |-> pulled.L.steps] :
                   pulled \in
                       {PullIn([L |-> Relax(ThirdPass(greedy), order, 0),
                                passes |-> 0, done |-> FALSE], order)}} :
               greedy \in {SecondPass(FirstPass(Range(order)), order, 1)}} : TRUE

\* rs.AutomaticDatablockLayout is true
layoutDatablocksAutomatic ==
    /\ pc = "layoutDatablocks"
    /\ \E order \in LayoutOrders : \E run \in {AutoLayout(order)} :
            /\ aircraft' = [ac \in DOMAIN aircraft |->
                               IF ac \in DOMAIN run.auto
                               THEN [aircraft[ac] EXCEPT
                                        !.datablockAutomaticOffset = run.auto[ac]]
                               ELSE aircraft[ac]]
            /\ last' = [NoLast EXCEPT !.op = "layoutDatablocks", !.run = run,
                                      !.pre = Snapshot]
    /\ Ran("layoutDatablocks", <<"layoutDatablocks">>)
    /\ hist' = [hist EXCEPT !.laidOut = TRUE]
    /\ UNCHANGED <<ghostAircraft, acSelectedByDatablock, minSepLines,
                   rangeBearingLines, mitList, rangeWarnings, CRDAEnabled,
                   DrawRangeIndicators, selectedAircraft, eventStream,
                   visibleNow, ctx>>
    /\ UNCHANGED otherVars

\* ------------------------------------------------------ consumeMouseEvents
\* The pointer and the keys of one frame.  `near` is the visible aircraft
\* the distance loop ends with (nil when none is under 15 px), `inside` the
\* one whose datablock the bounds loop finds the pointer in (nil when none).
DragDeltas == {Px(<<10, -4>>)}

DragInputs == {<<FALSE, Zero2>>} \cup {<<TRUE, d>> : d \in DragDeltas}

ClickInputs(cands) ==
    {[NoMouse EXCEPT !.clicked = TRUE, !.near = c[1], !.inside = c[2],
                     !.shift = k[1], !.control = k[2], !.point = pt] :
        c \in (cands \cup {Nil}) \X (cands \cup {Nil}),
        k \in BOOLEAN \X BOOLEAN,
        pt \in Points}

MouseInputs(cands) ==
    {[c EXCEPT !.dragging = d[1], !.dragDelta = d[2]] :
        c \in {NoMouse} \cup ClickInputs(cands), d \in DragInputs}

\* "Find the closest aircraft to the mouse, if any, that is closer than the
\* initial value of clickedDistance", the map ranged over in the order
\* order[i], order[i + 1], ...
RECURSIVE ClosestFrom(_, _, _, _, _)
ClosestFrom(order, pos, i, clickedAircraft, clickedDistance) ==
    IF i > Len(order) THEN clickedAircraft
    ELSE LET dist == distance2f(scene[order[i]].pw, pos)
         IN IF dist < clickedDistance
            THEN ClosestFrom(order, pos, i + 1, order[i], dist)
            ELSE ClosestFrom(order, pos, i + 1, clickedAircraft, clickedDistance)

Closest(order, pos) == ClosestFrom(order, pos, 1, Nil, 15 * Unit)

\* "And now check and see if a datablock was selected": the first aircraft
\* of the iteration whose datablock holds the pointer
InDatablock(order, pos) ==
    LET hits == {i \in 1..Len(order) :
                    Inside(WindowDatablockBounds(aircraft[order[i]],
                                                 scene[order[i]].pw), pos)}
    IN IF hits = {} THEN Nil ELSE order[SetMin(hits)]

\* the clicks the pointer positions of Pointers can make on the scene, the
\* two loops ranging over candidateAircraft in whatever order the map gives
SceneClicks(Pointers) ==
    LET orders == Perms(visibleNow \cap DOMAIN aircraft)
    IN {NoMouse} \cup
       {[NoMouse EXCEPT !.clicked = TRUE, !.near = Closest(o1, pos),
                        !.inside = InDatablock(o2, pos)] :
           pos \in Pointers, o1 \in orders, o2 \in orders}

\* the drag branch adding the drag to the manual offset alone
Dragged_ManualOnly(state, delta) ==
    [state EXCEPT
        !.datablockManualOffset = add2f(state.datablockManualOffset, delta),
        !.datablockAutomaticOffset = Zero2]

\* the drag branch without `state.datablockAutomaticOffset = [2]float32{0, 0}`
Dragged_KeepsAutomatic(state, delta) ==
    [state EXCEPT
        !.datablockManualOffset =
            add2f(state.datablockAutomaticOffset,
                  add2f(state.datablockManualOffset, delta))]

\* the drag branch: the dragged aircraft's state takes the drag
Dragged(state, delta) ==
    [state EXCEPT
        !.datablockManualOffset =
            add2f(state.datablockAutomaticOffset,
                  add2f(state.datablockManualOffset, delta)),
        !.datablockAutomaticOffset = Zero2]

\* the first block of consumeMouseEvents without its else branch
SelectionAfterDrag_Kept(sel, dragging) == sel

\* rs.acSelectedByDatablock after the first block of consumeMouseEvents
SelectionAfterDrag(sel, dragging) ==
    IF sel # Nil /\ ~dragging THEN Nil ELSE sel

\* the Control-click that only ever appends
ToggleMIT_AppendOnly(list, ac) == Append(list, ac)

\* Control-click on an aircraft -> add or remove from MIT list
ToggleMIT(list, ac) ==
    IF Find(list, ac) # 0
    THEN DeleteSliceElement(list, Find(list, ac))
    ELSE Append(list, ac)

\* the search for a line of the pair that tries one order of the two only
HaveMinSepLine_OneOrder(lines, a, b) ==
    \E i \in 1..Len(lines) : lines[i][1] = a /\ lines[i][2] = b

\* Do we already have a minimum separation line between these two?
HaveMinSepLine(lines, a, b) ==
    \E i \in 1..Len(lines) :
        \/ (lines[i][1] = a /\ lines[i][2] = b)
        \/ (lines[i][2] = a /\ lines[i][1] = b)

\* the click whose purging Shift-click leaves the range-bearing lines alone
PrimaryClick_PurgeKeepsRBL(m) ==
    LET clickedAircraft == IF m.inside # Nil THEN m.inside ELSE m.near
    IN IF m.shift /\ m.control
       THEN \* copy current mouse lat-long to the clipboard
            UNCHANGED <<minSepLines, rangeBearingLines, mitList, eventStream>>
       ELSE IF m.control
       THEN /\ mitList' = IF clickedAircraft = Nil THEN mitList
                          ELSE ToggleMIT(mitList, clickedAircraft)
            /\ UNCHANGED <<minSepLines, rangeBearingLines, eventStream>>
       ELSE IF m.shift
       THEN /\ IF clickedAircraft = Nil
               THEN /\ rangeBearingLines' =
                          IF selectedAircraft # Nil
                          THEN Append(rangeBearingLines,
                                      [ac |-> selectedAircraft, p |-> m.point])
                          ELSE rangeBearingLines
                    /\ UNCHANGED minSepLines
               ELSE IF selectedAircraft # Nil /\ selectedAircraft # clickedAircraft
               THEN /\ minSepLines' =
                          IF HaveMinSepLine(minSepLines, clickedAircraft, selectedAircraft)
                          THEN minSepLines
                          ELSE Append(minSepLines, <<selectedAircraft, clickedAircraft>>)
                    /\ UNCHANGED rangeBearingLines
               ELSE /\ minSepLines' =
                          LET keep == [ac \in Range(minSepLines) |-> ac[1] # clickedAircraft /\ ac[2] # clickedAircraft]
                          IN FilterSlice(minSepLines, keep)
                    /\ UNCHANGED rangeBearingLines
            /\ UNCHANGED <<mitList, eventStream>>
       ELSE /\ eventStream' = Post(eventStream, Event("Selected", clickedAircraft))
            /\ UNCHANGED <<minSepLines, rangeBearingLines, mitList>>

\* the click that posts no event when no aircraft is under the pointer
PrimaryClick_NoDeselect(m) ==
    LET clickedAircraft == IF m.inside # Nil THEN m.inside ELSE m.near
    IN IF m.shift /\ m.control
       THEN \* copy current mouse lat-long to the clipboard
            UNCHANGED <<minSepLines, rangeBearingLines, mitList, eventStream>>
       ELSE IF m.control
       THEN /\ mitList' = IF clickedAircraft = Nil THEN mitList
                          ELSE ToggleMIT(mitList, clickedAircraft)
            /\ UNCHANGED <<minSepLines, rangeBearingLines, eventStream>>
       ELSE IF m.shift
       THEN /\ IF clickedAircraft = Nil
               THEN /\ rangeBearingLines' =
                          IF selectedAircraft # Nil
                          THEN Append(rangeBearingLines,
                                      [ac |-> selectedAircraft, p |-> m.point])
                          ELSE rangeBearingLines
                    /\ UNCHANGED minSepLines
               ELSE IF selectedAircraft # Nil /\ selectedAircraft # clickedAircraft
               THEN /\ minSepLines' =
                          IF HaveMinSepLine(minSepLines, clickedAircraft, selectedAircraft)
                          THEN minSepLines
                          ELSE Append(minSepLines, <<selectedAircraft, clickedAircraft>>)
                    /\ UNCHANGED rangeBearingLines
               ELSE /\ minSepLines' =
                          LET keep == [ac \in Range(minSepLines) |-> ac[1] # clickedAircraft /\ ac[2] # clickedAircraft]
                          IN FilterSlice(minSepLines, keep)
                    /\ rangeBearingLines' =
                          LET keep == [rbl \in Range(rangeBearingLines) |-> rbl.ac # clickedAircraft]
                          IN FilterSlice(rangeBearingLines, keep)
            /\ UNCHANGED <<mitList, eventStream>>
       ELSE /\ eventStream' = IF clickedAircraft = Nil THEN eventStream
                              ELSE Post(eventStream, Event("Selected", clickedAircraft))
            /\ UNCHANGED <<minSepLines, rangeBearingLines, mitList>>

\* if ctx.mouse.Clicked[MouseButtonPrimary] { ... }: the branch on the keys
PrimaryClick(m) ==
    LET clickedAircraft == IF m.inside # Nil THEN m.inside ELSE m.near
    IN IF m.shift /\ m.control
       THEN \* copy current mouse lat-long to the clipboard
            UNCHANGED <<minSepLines, rangeBearingLines, mitList, eventStream>>
       ELSE IF m.control
       THEN /\ mitList' = IF clickedAircraft = Nil THEN mitList
                          ELSE ToggleMIT(mitList, clickedAircraft)
            /\ UNCHANGED <<minSepLines, rangeBearingLines, eventStream>>
       ELSE IF m.shift
       THEN /\ IF clickedAircraft = Nil
               THEN /\ rangeBearingLines' =
                          IF selectedAircraft # Nil
                          THEN Append(rangeBearingLines,
                                      [ac |-> selectedAircraft, p |-> m.point])
                          ELSE rangeBearingLines
                    /\ UNCHANGED minSepLines
               ELSE IF selectedAircraft # Nil /\ selectedAircraft # clickedAircraft
               THEN /\ minSepLines' =
                          IF HaveMinSepLine(minSepLines, clickedAircraft, selectedAircraft)
                          THEN minSepLines
                          ELSE Append(minSepLines, <<selectedAircraft, clickedAircraft>>)
                    /\ UNCHANGED rangeBearingLines
               ELSE /\ minSepLines' =
                          LET keep == [ac \in Range(minSepLines) |-> ac[1] # clickedAircraft /\ ac[2] # clickedAircraft]
                          IN FilterSlice(minSepLines, keep)
                    /\ rangeBearingLines' =
                          LET keep == [rbl \in Range(rangeBearingLines) |-> rbl.ac # clickedAircraft]
                          IN FilterSlice(rangeBearingLines, keep)
            /\ UNCHANGED <<mitList, eventStream>>
       ELSE /\ eventStream' = Post(eventStream, Event("Selected", clickedAircraft))
            /\ UNCHANGED <<minSepLines, rangeBearingLines, mitList>>

\* the Shift-Control-click that copies only off any aircraft
SetText_OffTargetOnly(m) ==
    IF m.clicked /\ m.shift /\ m.control /\ m.inside = Nil /\ m.near = Nil
    THEN <<m.point>> ELSE <<>>

\* the texts the frame's click hands to platform.GetClipboard().SetText:
\* "Shift-Control-click anywhere -> copy current mouse lat-long"
SetText(m) ==
    IF m.clicked /\ m.shift /\ m.control THEN <<m.point>> ELSE <<>>

\* consumeMouseEvents with ctx.mouse set, when the drag block finds a state
MouseFrame(m) ==
    LET sel == acSelectedByDatablock
        drag == sel # Nil /\ m.dragging
    IN /\ aircraft' = IF drag
                      THEN [aircraft EXCEPT ![sel] = Dragged(@, m.dragDelta)]
                      ELSE aircraft
       /\ acSelectedByDatablock' =
              IF m.clicked /\ m.inside # Nil THEN m.inside
              ELSE SelectionAfterDrag(sel, m.dragging)
       /\ IF m.clicked THEN PrimaryClick(m)
          ELSE UNCHANGED <<minSepLines, rangeBearingLines, mitList, eventStream>>
       /\ UNCHANGED <<ghostAircraft, rangeWarnings>>

\* what the model's bounds let a frame do
WithinBounds(ac, lines, rbls, mit) ==
    /\ Len(lines) + Len(rbls) + Len(mit) <= MaxEntries
    /\ \A a \in DOMAIN ac : \A i \in 1..2 :
          /\ ac[a].datablockManualOffset[i] <= MaxOffset * Unit
          /\ ac[a].datablockManualOffset[i] >= -(MaxOffset * Unit)

EndDraw ==
    /\ visibleNow' = {}
    /\ hist' = [hist EXCEPT !.removed = {}, !.toggled = MITHistory,
                            !.posted = PostedHistory,
                            !.laidOut = @ /\ aircraft' = aircraft]
    /\ ctx' = [thumbnail |-> FALSE, mouse |-> FALSE]

\* rs.aircraft[ac] is nil for the dragged aircraft: state.datablockManualOffset
\* dereferences a nil pointer and the program panics
DragOfMissingState(m) ==
    /\ acSelectedByDatablock # Nil
    /\ m.dragging
    /\ acSelectedByDatablock \notin DOMAIN aircraft

consumeMouseEvents(Inputs) ==
    /\ pc = "consumeMouseEvents"
    /\ ctx.mouse
    /\ \E m \in MouseInputs(visibleNow \cap DOMAIN aircraft) \cap Inputs :
         /\ ~DragOfMissingState(m)
         /\ MouseFrame(m)
         /\ WithinBounds(aircraft', minSepLines', rangeBearingLines', mitList')
         /\ last' = [NoLast EXCEPT !.op = "consumeMouseEvents", !.mouse = m,
                                   !.clipboard = SetText(m),
                                   !.pre = Snapshot]
    /\ Ran("consumeMouseEvents", <<"consumeMouseEvents">>)
    /\ EndDraw
    /\ UNCHANGED <<CRDAEnabled, DrawRangeIndicators, selectedAircraft>>
    /\ UNCHANGED otherVars

consumeMouseEventsPanics(Inputs) ==
    /\ pc = "consumeMouseEvents"
    /\ ctx.mouse
    /\ \E m \in MouseInputs(visibleNow \cap DOMAIN aircraft) \cap Inputs :
         /\ DragOfMissingState(m)
         /\ last' = [NoLast EXCEPT !.op = "panic", !.mouse = m, !.pre = Snapshot]
    /\ pc' = "panic"
    /\ UNCHANGED <<paneVars, CRDAEnabled, DrawRangeIndicators, selectedAircraft,
                   eventStream, visibleNow, ctx, frameLog, hist>>
    /\ UNCHANGED otherVars

\* if ctx.mouse == nil { return }
consumeNoMouse ==
    /\ pc = "consumeMouseEvents"
    /\ ~ctx.mouse
    /\ Ran("consumeMouseEvents", <<"consumeMouseEvents">>)
    /\ UNCHANGED <<paneVars, CRDAEnabled, DrawRangeIndicators, selectedAircraft,
                   eventStream>>
    /\ EndDraw
    /\ last' = [NoLast EXCEPT !.op = "noMouse", !.pre = Snapshot]
    /\ UNCHANGED otherVars

\* ----------------------------------------------------- initializeAircraft
\* the k-th smallest element of S
Kth(S, k) == CHOOSE x \in S : Cardinality({y \in S : y <= x}) = k

\* what still points at an aircraft once both maps are made anew
HeldOutsideStore ==
    {acSelectedByDatablock, selectedAircraft}
    \cup Range(mitList)
    \cup UNION {{l[1], l[2]} : l \in Range(minSepLines)}
    \cup {l.ac : l \in Range(rangeBearingLines)}
    \cup UNION {{p[1], p[2]} : p \in rangeWarnings}

\* initializeAircraft with server.GetAllAircraft() = all, of which those of
\* `ghosted` get a ghost from GetGhost (when crda is rs.CRDAEnabled)
initializeAircraft(crda, all, ghosted) ==
    LET free == GhostIds \ HeldOutsideStore
        ghostOf(a) == Kth(free, Cardinality({b \in ghosted : b <= a}))
        ghosts == IF crda THEN ghosted ELSE {}
    IN /\ Cardinality(ghosts) <= Cardinality(free)
       /\ ghostAircraft' = [a \in ghosts |-> ghostOf(a)]
       /\ aircraft' = [x \in all \cup {ghostOf(a) : a \in ghosts} |->
                          NewAircraftScopeState(x \notin all)]
       /\ hist' = [clean |-> all = {}, lastEvent |-> NoEvents, removed |-> {},
                   toggled |-> hist.toggled, posted |-> hist.posted,
                   laidOut |-> FALSE]

\* ------------------------------------------------------------------ drawUI
\* the checkbox "Converging runway display aid (CRDA)"
UIToggleCRDA(known) ==
    /\ pc = "drawUI"
    /\ CRDAEnabled' = ~CRDAEnabled
    /\ \E all \in SUBSET known : \E ghosted \in SUBSET all :
         /\ ~CRDAEnabled' => ghosted = {}
         /\ initializeAircraft(CRDAEnabled', all, ghosted)
    /\ pc' = "GetUpdates"
    /\ last' = [NoLast EXCEPT !.op = "initializeAircraft", !.pre = Snapshot]
    /\ UNCHANGED <<acSelectedByDatablock, minSepLines, rangeBearingLines,
                   mitList, rangeWarnings, DrawRangeIndicators,
                   selectedAircraft, eventStream, visibleNow, ctx, frameLog>>
    /\ UNCHANGED otherVars

\* the altitude inputs and CRDAConfig.DrawUI: initializeAircraft alone
UIReinitialize(known) ==
    /\ pc = "drawUI"
    /\ \E all \in SUBSET known : \E ghosted \in SUBSET all :
         /\ ~CRDAEnabled => ghosted = {}
         /\ initializeAircraft(CRDAEnabled, all, ghosted)
    /\ pc' = "GetUpdates"
    /\ last' = [NoLast EXCEPT !.op = "initializeAircraft", !.pre = Snapshot]
    /\ UNCHANGED <<acSelectedByDatablock, minSepLines, rangeBearingLines,
                   mitList, rangeWarnings, CRDAEnabled, DrawRangeIndicators,
                   selectedAircraft, eventStream, visibleNow, ctx, frameLog>>
    /\ UNCHANGED otherVars

\* the checkbox "Aircraft range indicators"
UIToggleRangeIndicators ==
    /\ pc = "drawUI"
    /\ DrawRangeIndicators' = ~DrawRangeIndicators
    /\ pc' = "GetUpdates"
    /\ last' = NoLast
    /\ UNCHANGED <<paneVars, CRDAEnabled, selectedAircraft, eventStream,
                   visibleNow, ctx, frameLog, hist>>
    /\ UNCHANGED otherVars

\* the checkbox "Automatic MIT lines for arrivals"
UIToggleAutoMIT ==
    /\ pc = "drawUI"
    /\ AutoMIT' = ~AutoMIT
    /\ pc' = "GetUpdates"
    /\ last' = NoLast
    /\ UNCHANGED <<paneVars, CRDAEnabled, DrawRangeIndicators, selectedAircraft,
                   eventStream, visibleNow, ctx, frameLog, hist>>
    /\ UNCHANGED <<sceneVars, traffic, mitLines, clock,
                   lastRangeNotificationPlayed, alerts, lifecycleVars>>

UINothing ==
    /\ pc = "drawUI"
    /\ pc' = "GetUpdates"
    /\ last' = NoLast
    /\ UNCHANGED <<paneVars, CRDAEnabled, DrawRangeIndicators, selectedAircraft,
                   eventStream, visibleNow, ctx, frameLog, hist>>
    /\ UNCHANGED otherVars

\* --------------------------------------------------------- the main loop
\* server.GetUpdates(): the server turns what the network sent into events
GetUpdates(Batches) ==
    /\ pc = "GetUpdates"
    /\ \E batch \in Batches : eventStream' = PostAll(eventStream, batch)
    /\ pc' = "Update"
    /\ last' = NoLast
    /\ UNCHANGED <<paneVars, CRDAEnabled, DrawRangeIndicators, selectedAircraft,
                   visibleNow, ctx, frameLog, hist>>
    /\ UNCHANGED otherVars

\* the aircraft of the last SelectedAircraftEvent of evs, or cur when none
LastSelected(evs, cur) ==
    LET idx == {i \in 1..Len(evs) : evs[i].type = "Selected"}
    IN IF idx = {} THEN cur
       ELSE evs[CHOOSE i \in idx : \A j \in idx : j <= i].ac

\* the 5 seconds of an entry of rs.pointedOutAircraft are over: Get no
\* longer finds it.  The clock is read between two frames.
PointOutExpires ==
    /\ pc = "GetUpdates"
    /\ \E a \in pointedOutAircraft :
         /\ pointedOutAircraft' = pointedOutAircraft \ {a}
         /\ last' = [NoLast EXCEPT !.op = "Expired", !.ac = a, !.pre = Snapshot]
    /\ UNCHANGED <<paneVars, CRDAEnabled, DrawRangeIndicators, selectedAircraft,
                   eventStream, visibleNow, pc, ctx, frameLog, hist, scene>>
    /\ UNCHANGED <<toolVars, lifecycleVars>>

\* a second goes by.  The clock is read between two frames.
TimePasses ==
    /\ pc = "GetUpdates"
    /\ clock < MaxClock
    /\ clock' = clock + 1
    /\ UNCHANGED <<paneVars, CRDAEnabled, DrawRangeIndicators, selectedAircraft,
                   eventStream, visibleNow, pc, ctx, frameLog, last, hist>>
    /\ UNCHANGED <<sceneVars, traffic, AutoMIT, mitLines,
                   lastRangeNotificationPlayed, alerts, lifecycleVars>>

\* PositionConfig.Update
Update ==
    /\ pc = "Update"
    /\ selectedAircraft' = LastSelected(eventStream["pc"], selectedAircraft)
    /\ eventStream' = [eventStream EXCEPT !["pc"] = <<>>]
    /\ pc' = "wmDrawPanes"
    /\ last' = [NoLast EXCEPT !.op = "Update", !.pre = Snapshot]
    /\ UNCHANGED <<paneVars, CRDAEnabled, DrawRangeIndicators, visibleNow, ctx,
                   frameLog, hist>>
    /\ UNCHANGED otherVars

\* wmDrawPanes calls Draw with a PaneContext: as a thumbnail (no mouse), or
\* as the pane on display, with the mouse when the pointer is in it
Thumbnail == [thumbnail |-> TRUE, mouse |-> FALSE]
PointerAway == [thumbnail |-> FALSE, mouse |-> FALSE]
PointerInPane == [thumbnail |-> FALSE, mouse |-> TRUE]

BeginDraw(Contexts) ==
    /\ pc = "wmDrawPanes"
    /\ \E c \in Contexts : ctx' = c
    /\ pc' = DrawOrder[1]
    /\ frameLog' = <<>>
    /\ last' = NoLast
    /\ UNCHANGED <<paneVars, CRDAEnabled, DrawRangeIndicators, selectedAircraft,
                   eventStream, visibleNow, hist>>
    /\ UNCHANGED otherVars

\* -------------------------------------------- the panes and their streams
\* The scope panes of the display trees besides the one the frames above
\* draw, by the fields Activate, Deactivate and Duplicate write.  A slice
\* that is nil is the empty sequence.
MaxPanes == 3
MaxSubscriptions == 4
PaneIds == 1..MaxPanes
\* the zero value of rs.eventsId
InvalidEventSubscriberId == 0
\* a map that is nil: its one key is one no map that was made has
NilMap == [x \in {Nil} |-> Nil]

\* &RadarScopePane{...}: the fields the literal leaves out are zero
NewRadarScopePane ==
    [eventsId |-> InvalidEventSubscriberId,
     CRDAEnabled |-> FALSE,
     aircraft |-> NilMap,
     ghostAircraft |-> NilMap,
     minSepLines |-> <<>>,
     rangeBearingLines |-> <<>>,
     mitList |-> <<>>,
     acSelectedByDatablock |-> Nil]

\* no pane besides the one the frames draw
NoPanes ==
    /\ panes = EmptyMap
    /\ subscriptions = {}
    /\ created = EmptyMap

\* the server knows no aircraft
NoScene == EmptyMap

\* NewRadarScopePane, then Activate with a server that knows no aircraft yet
Init ==
    /\ aircraft = EmptyMap
    /\ ghostAircraft = EmptyMap
    /\ acSelectedByDatablock = Nil
    /\ minSepLines = <<>>
    /\ rangeBearingLines = <<>>
    /\ mitList = <<>>
    /\ rangeWarnings = {}
    /\ CRDAEnabled = FALSE
    /\ DrawRangeIndicators = FALSE
    /\ selectedAircraft = Nil
    /\ eventStream = [s \in Subscribers |-> <<>>]
    /\ visibleNow = {}
    /\ pc = "GetUpdates"
    /\ ctx = PointerAway
    /\ frameLog = <<>>
    /\ last = NoLast
    /\ hist = [clean |-> TRUE, lastEvent |-> NoEvents, removed |-> {},
               toggled |-> <<>>, posted |-> {}, laidOut |-> FALSE]
    /\ pointedOutAircraft = {}
    /\ scene = NoScene
    /\ InitTools(NoTraffic)
    /\ NoPanes

\* ------------------------------------------------ a scene to lay out
\* The pane with automatic layout on and a store the events and the drags
\* of earlier frames have left: states just created or states of labels
\* dragged before, of the aircraft of `acs` and of the ghosts of `ghosted`.
LayoutAircraft == 2
\* where the server has an aircraft and where it is heading: two places
\* ten pixels apart, and one well off the pane
Tracks ==
    {[pw |-> Px(<<100, 100>>), heading |-> 45],
     [pw |-> Px(<<100, 110>>), heading |-> 45],
     [pw |-> Px(<<100, 110>>), heading |-> 0],
     [pw |-> Px(<<-150, 100>>), heading |-> 45]}
ManualOffsets == {Px(<<5, -5>>)}
\* the pointer on a track, and in the text of its datablock
Pointers == {Px(<<100, 100>>), Px(<<110, 92>>)}

DraggedState(g, manual) ==
    [NewAircraftScopeState(g) EXCEPT !.datablockManualOffset = manual,
                                    !.datablockTextCurrent = TRUE,
                                    !.datablockBounds = TextBounds]

\* the ghost of the k-th aircraft, and the aircraft a ghost is the ghost of
GhostOf(a) == NumAircraft + a
\* Aircraft.Callsign: a ghost carries the callsign of its aircraft
Callsign(x) == IF x \in RealAircraft THEN x ELSE x - NumAircraft

\* the two places on the pane, heading north-east
ClickTracks == {t \in Tracks : OnScreen(t.pw) /\ t.heading = 45}

InitLayout(tracksOf, ghosts) ==
    /\ \E acs \in {1..LayoutAircraft} :
       \E ghosted \in ghosts :
         LET all == acs \cup {GhostOf(a) : a \in ghosted}
         IN /\ ghostAircraft = [a \in ghosted |-> GhostOf(a)]
            /\ CRDAEnabled = (ghosted # {})
            /\ aircraft \in
                  [all -> {NewAircraftScopeState(g) : g \in BOOLEAN}
                          \cup {DraggedState(g, m) :
                                   g \in BOOLEAN, m \in ManualOffsets}]
            /\ \A x \in all : aircraft[x].isGhost = (x \notin acs)
            /\ \E tracks \in [all -> tracksOf] :
                  scene = [x \in all |->
                              [callsign |-> Callsign(x), pw |-> tracks[x].pw,
                               heading |-> tracks[x].heading]]
    /\ acSelectedByDatablock = Nil
    /\ minSepLines = <<>>
    /\ rangeBearingLines = <<>>
    /\ mitList = <<>>
    /\ rangeWarnings = {}
    /\ DrawRangeIndicators = FALSE
    /\ selectedAircraft = Nil
    /\ eventStream = [s \in Subscribers |-> <<>>]
    /\ visibleNow = {}
    /\ pc = "GetUpdates"
    /\ ctx = PointerAway
    /\ frameLog = <<>>
    /\ last = NoLast
    /\ hist = [clean |-> FALSE, lastEvent |-> NoEvents, removed |-> {},
               toggled |-> <<>>, posted |-> {}, laidOut |-> FALSE]
    /\ pointedOutAircraft = {}
    /\ InitTools(NoTraffic)
    /\ NoPanes

\* ---------------------------------------------------------- environments
\* Each specification runs the whole main loop in one environment: what the
\* server, the window manager and the user may do in it.
SyncAircraft == 2
ToolsAircraft == 2
DragAircraft == 2

PointOutAircraft == 2
PointOutEvents(acs) == {Event("PointOut", a) : a \in acs}
AtMostOnePair == {{}} \cup {{p} : p \in Pairs}
Batches(acs, n) == SeqsUpTo(ServerEvents(acs), n)

\* clicks with any keys, no drag; the aircraft the pointer is nearest to is
\* the one whose datablock it is in, when it is in one
Clicks ==
    {NoMouse} \cup {m \in ClickInputs(Ids) : m.inside # Nil => m.near = m.inside}
\* clicks without keys, and drags
PlainClicksAndDrags ==
    {m \in MouseInputs(Ids) : ~m.shift /\ ~m.control}

\* The pane synchronising its store with the event stream, ghost generation
\* switched on and off; the pointer stays out of the pane.
NextSync ==
    \/ GetUpdates(Batches(1..SyncAircraft, MaxBatch))
    \/ Update
    \/ BeginDraw({Thumbnail, PointerAway})
    \/ ProcessAdded
    \/ ProcessRemoved
    \/ ProcessModified
    \/ ProcessEventsDone(FALSE)
    \/ drawTools({{}})
    \/ updateDatablockTextAndBounds
    \/ layoutDatablocks({45})
    \/ consumeNoMouse
    \/ UIToggleCRDA(1..SyncAircraft)
    \/ UIReinitialize(1..SyncAircraft)
    \/ UINothing

SpecSync == Init /\ [][NextSync]_vars

\* The range indicators switched on and off while aircraft come, go, move
\* into and out of conflict and of view; ghosts are among them.
NextTools ==
    \/ GetUpdates(Batches(1..ToolsAircraft, 1))
    \/ Update
    \/ BeginDraw({Thumbnail, PointerAway})
    \/ ProcessAdded
    \/ ProcessRemoved
    \/ ProcessModified
    \/ ProcessEventsDone(FALSE)
    \/ drawTools(AtMostOnePair)
    \/ updateDatablockTextAndBounds
    \/ layoutDatablocks({45})
    \/ consumeNoMouse
    \/ UIToggleCRDA(1..ToolsAircraft)
    \/ UIToggleRangeIndicators
    \/ UINothing

SpecTools == Init /\ [][NextTools]_vars

\* The user clicking in the pane, with and without keys, while aircraft
\* come and go: the lists of lines and the MIT list fill and are purged.
NextLists ==
    \/ GetUpdates(Batches(RealAircraft, 1))
    \/ Update
    \/ BeginDraw({PointerInPane})
    \/ ProcessAdded
    \/ ProcessRemoved
    \/ ProcessModified
    \/ ProcessOther
    \/ ProcessEventsDone(TRUE)
    \/ drawTools({{}})
    \/ updateDatablockTextAndBounds
    \/ layoutDatablocks({45})
    \/ consumeMouseEvents(Clicks)
    \/ UINothing

SpecLists == Init /\ [][NextLists]_vars

\* The user clicking on datablocks and dragging them, the pane drawn on
\* display and as a thumbnail, the store loaded anew from the server.
NextDrag ==
    \/ GetUpdates(Batches(1..DragAircraft, 1))
    \/ Update
    \/ BeginDraw({Thumbnail, PointerAway, PointerInPane})
    \/ ProcessAdded
    \/ ProcessRemoved
    \/ ProcessModified
    \/ ProcessOther
    \/ ProcessEventsDone(FALSE)
    \/ drawTools({{}})
    \/ updateDatablockTextAndBounds
    \/ layoutDatablocks({45, 90})
    \/ consumeMouseEvents(PlainClicksAndDrags)
    \/ consumeMouseEventsPanics(PlainClicksAndDrags)
    \/ consumeNoMouse
    \/ UIReinitialize(1..DragAircraft)
    \/ UINothing

SpecDrag == Init /\ [][NextDrag]_vars

\* Controllers pointing aircraft out to this one, and the annotations
\* running out, while the aircraft come, change and go.
NextPointOut ==
    \/ GetUpdates(SeqsUpTo(ServerEvents(1..PointOutAircraft)
                              \cup PointOutEvents(1..PointOutAircraft), 1))
    \/ PointOutExpires
    \/ Update
    \/ BeginDraw({Thumbnail, PointerAway})
    \/ ProcessAdded
    \/ ProcessRemoved
    \/ ProcessModified
    \/ ProcessPointOut
    \/ ProcessEventsDone(FALSE)
    \/ drawTools({{}})
    \/ updateDatablockTextAndBounds
    \/ layoutDatablocks({45})
    \/ consumeNoMouse
    \/ UINothing

SpecPointOut == Init /\ [][NextPointOut]_vars

\* The automatic layout run frame after frame on a scene that stays as
\* it is, one aircraft with a ghost or none; the pointer out of the pane.
NextLayout ==
    \/ GetUpdates({<<>>})
    \/ Update
    \/ BeginDraw({PointerAway})
    \/ ProcessEventsDone(TRUE)
    \/ drawTools({{}})
    \/ updateDatablockTextAndBounds
    \/ layoutDatablocksAutomatic
    \/ consumeNoMouse
    \/ UINothing

SpecLayout == InitLayout(Tracks, {{}, {1}}) /\ [][NextLayout]_vars

\* The user clicking on the tracks and the datablocks of two aircraft that
\* are on the pane, laid out automatically.
NextClick ==
    \/ GetUpdates({<<>>})
    \/ Update
    \/ BeginDraw({PointerInPane})
    \/ ProcessOther
    \/ ProcessEventsDone(TRUE)
    \/ drawTools({{}})
    \/ updateDatablockTextAndBounds
    \/ layoutDatablocksAutomatic
    \/ consumeMouseEvents(SceneClicks(Pointers))
    \/ UINothing

SpecClick == InitLayout(ClickTracks, {{}}) /\ [][NextClick]_vars

\* ------------------------------------------------------ arrival traffic
\* What the server may know of each aircraft: aircraft 1 ten miles out and
\* inbound; aircraft 2 one, two or four miles behind it or far behind it,
\* level with it or 3000 ft off, inbound, across or turning away; aircraft
\* 3 three, four or ten miles behind aircraft 1, for the same airport or the
\* other, or no arrival at all.
Flight(x, altitude, heading, airport, arrival) ==
    [x |-> x, altitude |-> altitude, heading |-> heading, airport |-> airport,
     arrival |-> arrival]
Flights ==
    << {Flight(10, alt, 270, "A", TRUE) : alt \in {3000, 6000}},
       {Flight(x, alt, hdg, "A", TRUE) :
           x \in {11, 12, 14, 31}, alt \in {3000, 6000}, hdg \in {270, 180, 120}},
       {Flight(x, 3000, 270, ap, TRUE) : x \in {13, 14, 20}, ap \in {"A", "B"}}
           \cup {Flight(14, 3000, 270, "A", FALSE)} >>
\* two aircraft level and one or two miles apart, or 3000 ft apart
AlertFlights ==
    << {Flight(10, 3000, 270, "A", TRUE)},
       {Flight(x, alt, 270, "A", TRUE) : x \in {11, 12}, alt \in {3000, 6000}} >>
\* rs.mitList as Control-clicks of earlier frames left it
MITLists == {<<>>, <<1, 2>>, <<2, 1, 3>>}

\* The pane after initializeAircraft loaded the server's aircraft
InitTraffic(flights, lists) ==
    /\ aircraft = [a \in DOMAIN flights |-> NewAircraftScopeState(FALSE)]
    /\ ghostAircraft = EmptyMap
    /\ acSelectedByDatablock = Nil
    /\ minSepLines = <<>>
    /\ rangeBearingLines = <<>>
    /\ mitList \in {l \in lists : Range(l) \subseteq DOMAIN flights}
    /\ rangeWarnings = {}
    /\ CRDAEnabled = FALSE
    /\ DrawRangeIndicators = FALSE
    /\ selectedAircraft = Nil
    /\ eventStream = [s \in Subscribers |-> <<>>]
    /\ visibleNow = {}
    /\ pc = "GetUpdates"
    /\ ctx = PointerAway
    /\ frameLog = <<>>
    /\ last = NoLast
    /\ hist = [clean |-> FALSE, lastEvent |-> NoEvents, removed |-> {},
               toggled |-> <<>>, posted |-> {}, laidOut |-> FALSE]
    /\ pointedOutAircraft = {}
    /\ scene = NoScene
    /\ \E tr \in [DOMAIN flights -> UNION Range(flights)] :
          /\ \A a \in DOMAIN flights : tr[a] \in flights[a]
          /\ InitTools(tr)
          /\ NoPanes

\* The MIT lines and the range warnings of a pane on display, the two
\* checkboxes switched on and off, with a manual sequence or none.
NextMIT ==
    \/ GetUpdates({<<>>})
    \/ Update
    \/ BeginDraw({PointerAway})
    \/ ProcessEventsDone(TRUE)
    \/ drawTools({TrafficConflicts})
    \/ updateDatablockTextAndBounds
    \/ layoutDatablocks({45})
    \/ consumeNoMouse
    \/ UIToggleRangeIndicators
    \/ UIToggleAutoMIT
    \/ UINothing

SpecMIT == InitTraffic(Flights, MITLists) /\ [][NextMIT]_vars

\* The conflict alert over the seconds, while aircraft in violation move
\* into and out of view and the range indicators are switched on and off.
NextAlert ==
    \/ GetUpdates({<<>>})
    \/ TimePasses
    \/ Update
    \/ BeginDraw({Thumbnail, PointerAway})
    \/ ProcessEventsDone(FALSE)
    \/ drawTools({TrafficConflicts})
    \/ updateDatablockTextAndBounds
    \/ layoutDatablocks({45})
    \/ consumeNoMouse
    \/ UIToggleRangeIndicators
    \/ UINothing

SpecAlert == InitTraffic(AlertFlights, {<<>>}) /\ [][NextAlert]_vars

\* ------------------------------------------------- both layouts, and drags
\* The user clicking on datablocks and dragging them on a scene of two
\* aircraft heading north-east, and switching the checkbox "Automatic
\* datablock layout" between frames: either branch of layoutDatablocks may
\* run in a frame.
DragsOnScene ==
    {[c EXCEPT !.dragging = d[1], !.dragDelta = d[2]] :
        c \in SceneClicks(Pointers), d \in DragInputs}

NextModes ==
    \/ GetUpdates({<<>>})
    \/ Update
    \/ BeginDraw({PointerAway, PointerInPane})
    \/ ProcessOther
    \/ ProcessEventsDone(TRUE)
    \/ drawTools({{}})
    \/ updateDatablockTextAndBounds
    \/ layoutDatablocks({45})
    \/ layoutDatablocksAutomatic
    \/ consumeMouseEvents(DragsOnScene)
    \/ consumeNoMouse
    \/ UINothing

SpecModes == InitLayout(ClickTracks, {{}}) /\ [][NextModes]_vars

\* ------------------------------------------------------ every heading
\* One aircraft in the middle of the pane, its state just created, with any
\* heading with respect to the window: ac.Heading() is 0..360 and
\* rs.RotationAngle -90..90.  The automatic layout puts its label at the
\* offset of offsetSelfOnly, frame after frame.
WindowHeadings == -90..450

InitHeadings ==
    /\ aircraft = [x \in {1} |-> NewAircraftScopeState(FALSE)]
    /\ ghostAircraft = EmptyMap
    /\ CRDAEnabled = FALSE
    /\ \E h \in WindowHeadings :
          scene = [x \in {1} |->
                      [callsign |-> Callsign(x), pw |-> Px(<<100, 100>>),
                       heading |-> h]]
    /\ acSelectedByDatablock = Nil
    /\ minSepLines = <<>>
    /\ rangeBearingLines = <<>>
    /\ mitList = <<>>
    /\ rangeWarnings = {}
    /\ DrawRangeIndicators = FALSE
    /\ selectedAircraft = Nil
    /\ eventStream = [s \in Subscribers |-> <<>>]
    /\ visibleNow = {}
    /\ pc = "GetUpdates"
    /\ ctx = PointerAway
    /\ frameLog = <<>>
    /\ last = NoLast
    /\ hist = [clean |-> FALSE, lastEvent |-> NoEvents, removed |-> {},
               toggled |-> <<>>, posted |-> {}, laidOut |-> FALSE]
    /\ pointedOutAircraft = {}
    /\ InitTools(NoTraffic)
    /\ NoPanes

SpecHeadings == InitHeadings /\ [][NextLayout]_vars

\* --------------------------------------------------- dragging a ghost
\* A pane activated with the CRDA switched on in its configuration, before
\* the server knows any aircraft.  One aircraft comes, changes and goes,
\* each Added and Modified event giving it a ghost or none, while the user
\* clicks on datablocks, of the aircraft and of its ghost, and drags them.
InitCRDA ==
    /\ aircraft = EmptyMap
    /\ ghostAircraft = EmptyMap
    /\ acSelectedByDatablock = Nil
    /\ minSepLines = <<>>
    /\ rangeBearingLines = <<>>
    /\ mitList = <<>>
    /\ rangeWarnings = {}
    /\ CRDAEnabled = TRUE
    /\ DrawRangeIndicators = FALSE
    /\ selectedAircraft = Nil
    /\ eventStream = [s \in Subscribers |-> <<>>]
    /\ visibleNow = {}
    /\ pc = "GetUpdates"
    /\ ctx = PointerAway
    /\ frameLog = <<>>
    /\ last = NoLast
    /\ hist = [clean |-> TRUE, lastEvent |-> NoEvents, removed |-> {},
               toggled |-> <<>>, posted |-> {}, laidOut |-> FALSE]
    /\ pointedOutAircraft = {}
    /\ scene = NoScene
    /\ InitTools(NoTraffic)
    /\ NoPanes

NextGhostDrag ==
    \/ GetUpdates(Batches({1}, 1))
    \/ Update
    \/ BeginDraw({PointerInPane})
    \/ ProcessAdded
    \/ ProcessRemoved
    \/ ProcessModified
    \/ ProcessOther
    \/ ProcessEventsDone(TRUE)
    \/ drawTools({{}})
    \/ updateDatablockTextAndBounds
    \/ layoutDatablocks({45})
    \/ consumeMouseEvents(PlainClicksAndDrags)
    \/ consumeMouseEventsPanics(PlainClicksAndDrags)
    \/ UINothing

SpecGhostDrag == InitCRDA /\ [][NextGhostDrag]_vars

\* ------------------------------------- Activate, Deactivate and Duplicate
\* The panes of a display tree are activated, deactivated and duplicated,
\* in any order, while no frame is drawn.  The first pane is one that
\* NewRadarScopePane made or that was loaded from a configuration, with
\* the CRDA on or off; the others are its duplicates.
frameVars == <<paneVars, CRDAEnabled, DrawRangeIndicators, selectedAircraft,
               eventStream, visibleNow, pc, ctx, frameLog, last, hist,
               sceneVars, toolVars>>

\* the aircraft the server may know when a pane is activated
PaneAircraft == {1}

\* eventStream.Subscribe(): an id the stream gave to no one before
Subscribe == Cardinality(UNION {created[p] : p \in DOMAIN created}) + 1
\* eventStream.Unsubscribe(id): the stream has this subscriber no longer
Unsubscribe(subs, id) == subs \ {id}

\* what a range over the map visits: nothing when the map is nil
Entries(m) == IF m = NilMap THEN EmptyMap ELSE m

\* rs.initializeAircraft() on the pane rs, the server knowing `all`, of
\* which those of `ghosted` get a ghost
InitializedPane(rs, all, ghosted) ==
    LET ghosts == IF rs.CRDAEnabled THEN ghosted ELSE {}
    IN [rs EXCEPT !.ghostAircraft = [a \in ghosts |-> GhostOf(a)],
                  !.aircraft = [x \in all \cup {GhostOf(a) : a \in ghosts} |->
                                   NewAircraftScopeState(x \notin all)]]

\* RadarScopePane.Activate
Activate(p) ==
    /\ p \in DOMAIN panes
    /\ Subscribe <= MaxSubscriptions
    /\ \E all \in SUBSET PaneAircraft : \E ghosted \in SUBSET all :
         /\ ~panes[p].CRDAEnabled => ghosted = {}
         /\ panes' = [panes EXCEPT ![p] =
               InitializedPane([panes[p] EXCEPT !.eventsId = Subscribe],
                               all, ghosted)]
    /\ subscriptions' = subscriptions \cup {Subscribe}
    /\ created' = [created EXCEPT ![p] = @ \cup {Subscribe}]
    /\ UNCHANGED frameVars

\* RadarScopePane.Deactivate
Deactivate(p) ==
    /\ p \in DOMAIN panes
    /\ panes' = [panes EXCEPT ![p] =
          [@ EXCEPT !.aircraft = NilMap,
                    !.ghostAircraft = NilMap,
                    !.minSepLines = <<>>,
                    !.rangeBearingLines = <<>>,
                    !.mitList = <<>>,
                    !.acSelectedByDatablock = Nil,
                    !.eventsId = InvalidEventSubscriberId]]
    /\ subscriptions' = Unsubscribe(subscriptions, panes[p].eventsId)
    /\ UNCHANGED created
    /\ UNCHANGED frameVars

\* RadarScopePane.Duplicate of the pane p; q is the pane it returns.  Each
\* ghost is copied to an address of its own, while the new states stay
\* under the keys of rs.aircraft.
Duplicate(p, q) ==
    /\ p \in DOMAIN panes
    /\ q \in PaneIds \ DOMAIN panes
    /\ q = Cardinality(DOMAIN panes) + 1
    /\ Subscribe <= MaxSubscriptions
    /\ LET rs == panes[p]
           tracked == Entries(rs.aircraft)
           gh == Entries(rs.ghostAircraft)
           free == GhostIds \ (DOMAIN tracked \cup {gh[a] : a \in DOMAIN gh})
           copyOf(a) == Kth(free, Cardinality({b \in DOMAIN gh : b <= a}))
           dupe == [rs EXCEPT
                      !.aircraft = [ac \in DOMAIN tracked |->
                                      NewAircraftScopeState(tracked[ac].isGhost)],
                      !.ghostAircraft = [a \in DOMAIN gh |-> copyOf(a)],
                      !.eventsId = Subscribe]
       IN /\ Cardinality(DOMAIN gh) <= Cardinality(free)
          /\ panes' = [x \in DOMAIN panes \cup {q} |->
                          IF x = q THEN dupe ELSE panes[x]]
    /\ subscriptions' = subscriptions \cup {Subscribe}
    /\ created' = [x \in DOMAIN panes \cup {q} |->
                      IF x = q THEN {Subscribe} ELSE created[x]]
    /\ UNCHANGED frameVars

\* the lists and the selection the frames left in the first pane
PaneLists ==
    {[mitList |-> <<>>, acSelectedByDatablock |-> Nil],
     [mitList |-> <<1>>, acSelectedByDatablock |-> 1]}

InitPanes ==
    /\ aircraft = EmptyMap
    /\ ghostAircraft = EmptyMap
    /\ acSelectedByDatablock = Nil
    /\ minSepLines = <<>>
    /\ rangeBearingLines = <<>>
    /\ mitList = <<>>
    /\ rangeWarnings = {}
    /\ CRDAEnabled = FALSE
    /\ DrawRangeIndicators = FALSE
    /\ selectedAircraft = Nil
    /\ eventStream = [s \in Subscribers |-> <<>>]
    /\ visibleNow = {}
    /\ pc = "GetUpdates"
    /\ ctx = PointerAway
    /\ frameLog = <<>>
    /\ last = NoLast
    /\ hist = [clean |-> TRUE, lastEvent |-> NoEvents, removed |-> {},
               toggled |-> <<>>, posted |-> {}, laidOut |-> FALSE]
    /\ pointedOutAircraft = {}
    /\ scene = NoScene
    /\ InitTools(NoTraffic)
    /\ \E crda \in BOOLEAN : \E l \in PaneLists :
         panes = [p \in {1} |->
                    [NewRadarScopePane EXCEPT
                        !.CRDAEnabled = crda,
                        !.mitList = l.mitList,
                        !.acSelectedByDatablock = l.acSelectedByDatablock]]
    /\ subscriptions = {}
    /\ created = [p \in {1} |-> {}]

NextPanes ==
    \/ \E p \in PaneIds : Activate(p)
    \/ \E p \in PaneIds : Deactivate(p)
    \/ \E p, q \in PaneIds : Duplicate(p, q)

SpecPanes == InitPanes /\ [][NextPanes]_vars

\* ------------------------------------------------------------ properties
NonGhosts(store) == {x \in DOMAIN store : ~store[x].isGhost}
Ghosts(store) == {x \in DOMAIN store : store[x].isGhost}

\* C1: with ghost generation enabled, whatever Added, Removed and Modified
\* events the pane has processed, every state of the store marked isGhost is
\* the ghost rs.ghostAircraft records for some aircraft that has a
\* non-ghost state of its own.
C1_EveryGhostHasItsSource ==
    CRDAEnabled =>
        \A x \in Ghosts(aircraft) :
            \E a \in DOMAIN ghostAircraft :
                /\ ghostAircraft[a] = x
                /\ a \in NonGhosts(aircraft)

\* C2: after Added and Removed events only, none of them an Added for an
\* aircraft the store had a state for, the non-ghost states of the store are
\* those of exactly the aircraft whose last event was Added: one each, and
\* none for an aircraft whose last event was Removed.
C2_StoreFollowsLastEvent ==
    hist.clean =>
        /\ NonGhosts(aircraft) =
               {a \in RealAircraft : hist.lastEvent[a] = "Added"}
        /\ \A a \in RealAircraft :
               hist.lastEvent[a] = "Removed" => a \notin DOMAIN aircraft

\* C2's case: a Removed event has just taken the state of an aircraft away
\* while another aircraft, Added before, keeps its own
C2_Witness ==
    /\ hist.clean
    /\ last.op = "Removed"
    /\ last.ac \in DOMAIN last.pre.aircraft
    /\ \E b \in RealAircraft : b # last.ac /\ hist.lastEvent[b] = "Added"

\* C3: an aircraft that had a ghost when a Removed event of this
\* processEvents call named it (and that no later event of the call names)
\* has no state, its ghost has no state, and rs.ghostAircraft has no entry
\* for it: right after the event, and until the call and the frame end.
C3_RemovedLeavesNothing ==
    \A r \in hist.removed :
        /\ r[1] \notin DOMAIN aircraft
        /\ r[2] \notin DOMAIN aircraft
        /\ r[1] \notin DOMAIN ghostAircraft

\* C3's case: processEvents has returned, after a Removed event for an
\* aircraft with a ghost and then another event that left a state behind
C3_Witness ==
    /\ pc = "drawTools"
    /\ hist.removed # {}
    /\ aircraft # EmptyMap

\* C5: a Modified event for an aircraft the store has no state for leaves
\* the store and the ghost map as an Added event for it would have (given
\* the same answer of the ghost generator).
C5_ModifiedUnknownIsAdded ==
    (last.op = "Modified" /\ last.ac \notin DOMAIN last.pre.aircraft) =>
        /\ aircraft = AddedStore(last.pre.aircraft, CRDAEnabled, last.ac, last.ghost)
        /\ ghostAircraft =
               AddedGhosts(last.pre.ghostAircraft, CRDAEnabled, last.ac, last.ghost)

\* C5's case: such a Modified event has come, with a ghost to show
C5_Witness ==
    /\ last.op = "Modified"
    /\ last.ac \notin DOMAIN last.pre.aircraft
    /\ last.ghost # Nil
    /\ last.pre.aircraft # EmptyMap

\* C4: a Removed event leaves of rs.minSepLines, rs.rangeBearingLines and
\* rs.mitList the entries that do not name its aircraft, all of them and in
\* the order they had, and no entry that names it; rs.acSelectedByDatablock
\* is not that aircraft afterwards, and is what it was if it was another.
C4_RemovedPurgesLists ==
    last.op = "Removed" =>
        LET a == last.ac
            lineKept(l) == l[1] # a /\ l[2] # a
            rblKept(l) == l.ac # a
            mitKept(x) == x # a
        IN /\ minSepLines = SelectSeq(last.pre.minSepLines, lineKept)
           /\ rangeBearingLines = SelectSeq(last.pre.rangeBearingLines, rblKept)
           /\ mitList = SelectSeq(last.pre.mitList, mitKept)
           /\ acSelectedByDatablock # a
           /\ last.pre.acSelectedByDatablock # a =>
                  acSelectedByDatablock = last.pre.acSelectedByDatablock

\* C4's case: the aircraft removed had a minimum separation line, a range
\* bearing line and an MIT entry, and its datablock was the one selected
C4_Witness ==
    /\ last.op = "Removed"
    /\ \E i \in 1..Len(last.pre.minSepLines) :
           last.ac \in {last.pre.minSepLines[i][1], last.pre.minSepLines[i][2]}
    /\ \E i \in 1..Len(last.pre.rangeBearingLines) :
           last.pre.rangeBearingLines[i].ac = last.ac
    /\ last.ac \in Range(last.pre.mitList)
    /\ last.pre.acSelectedByDatablock = last.ac

\* C6: after a Modified event the aircraft is in rs.mitList exactly if it
\* was in it before and is not on the ground; the other entries and their
\* order are as before, and so is the whole list when the aircraft stays.
C6_ModifiedDropsGroundedFromMIT ==
    last.op = "Modified" =>
        LET a == last.ac
            other(x) == x # a
        IN /\ (a \in Range(mitList)) <=>
                  (a \in Range(last.pre.mitList) /\ ~last.onGround)
           /\ SelectSeq(mitList, other) = SelectSeq(last.pre.mitList, other)
           /\ ~last.onGround => mitList = last.pre.mitList

\* C6's case: an aircraft on the MIT list between two others is on the ground
C6_Witness ==
    /\ last.op = "Modified"
    /\ last.onGround
    /\ Len(last.pre.mitList) = 3
    /\ last.pre.mitList[2] = last.ac

\* the steps of Draw, as the log names them, of a frame drawn on display
\* and of one drawn as a thumbnail
DisplayFrame ==
    <<"processEvents", "drawRangeIndicators", "drawMIT",
      "updateDatablockTextAndBounds", "layoutDatablocks", "consumeMouseEvents">>
ThumbnailFrame ==
    <<"processEvents", "updateDatablockTextAndBounds", "layoutDatablocks",
      "consumeMouseEvents">>
IsPrefix(p, q) == Len(p) <= Len(q) /\ SubSeq(q, 1, Len(p)) = p
\* a Draw call is in progress, or has ended in a panic
InDraw == pc \in Range(DrawOrder) \cup {"panic"}
Before(x, y) ==
    \A j \in 1..Len(frameLog) :
        frameLog[j] = y => \E i \in 1..(j - 1) : frameLog[i] = x

C8_WarningsAreThisFrames ==
    (last.op = "drawTools" /\ ~ctx.thumbnail) =>
        rangeWarnings \subseteq
            BothOrders({p \in last.conflicts :
                           p \subseteq (NonGhosts(aircraft) \cap visibleNow)})

C10_ReleaseClearsSelection ==
    (last.op = "consumeMouseEvents" /\ ~last.mouse.dragging
       /\ last.pre.acSelectedByDatablock # Nil) =>
        /\ acSelectedByDatablock =
               IF last.mouse.clicked /\ last.mouse.inside # Nil
               THEN last.mouse.inside
               ELSE Nil
        /\ aircraft = last.pre.aircraft

\* C10's case: a datablock dragged before is released
C10_Witness ==
    /\ last.op = "consumeMouseEvents"
    /\ ~last.mouse.dragging
    /\ ~last.mouse.clicked
    /\ last.pre.acSelectedByDatablock \in DOMAIN last.pre.aircraft
    /\ last.pre.aircraft[last.pre.acSelectedByDatablock].datablockManualOffset # <<0, 0>>
    /\ acSelectedByDatablock = Nil

\* ------------------------------------------------- the clicks and the keys
\* the mouse of the consumeMouseEvents call that acted last
MouseDone == last.op = "consumeMouseEvents" /\ last.mouse.clicked
ClickedOf(m) == IF m.inside # Nil THEN m.inside ELSE m.near
OfPair(line, a, b) == {line[1], line[2]} = {a, b}
WithoutLinesOf(lines, c) == SelectSeq(lines, LAMBDA l : l[1] # c /\ l[2] # c)
WithoutAnchor(rbls, c) == SelectSeq(rbls, LAMBDA l : l.ac # c)

\* C11: a Control-click (Shift up) on an aircraft that is not in rs.mitList
\* appends it; a Control-click on the aircraft that the last change of the
\* list appended leaves the list as it was before that append; a
\* Control-click with no aircraft under the pointer changes no list, no
\* state of the store, posts no event, and leaves rs.acSelectedByDatablock
\* as the drag block of the same call left it.
C11_ControlClickTogglesMIT ==
    (MouseDone /\ last.mouse.control /\ ~last.mouse.shift) =>
        LET c == ClickedOf(last.mouse)
            pre == last.pre
        IN /\ (c # Nil /\ c \notin Range(pre.mitList)) =>
                  mitList = Append(pre.mitList, c)
           /\ (c # Nil /\ pre.toggled # <<>> /\ pre.toggled[1] = c) =>
                  mitList = pre.toggled[2]
           /\ c = Nil =>
                  /\ mitList = pre.mitList
                  /\ minSepLines = pre.minSepLines
                  /\ rangeBearingLines = pre.rangeBearingLines
                  /\ eventStream = pre.eventStream
                  /\ selectedAircraft = pre.selectedAircraft
                  /\ ~last.mouse.dragging => aircraft = pre.aircraft
                  /\ acSelectedByDatablock =
                        IF last.mouse.dragging THEN pre.acSelectedByDatablock
                        ELSE Nil

\* C11's case: the second Control-click on an aircraft, which the first had
\* appended to a list that was not empty
C11_Witness ==
    /\ MouseDone /\ last.mouse.control /\ ~last.mouse.shift
    /\ last.pre.toggled # <<>>
    /\ last.pre.toggled[1] = ClickedOf(last.mouse)
    /\ last.pre.toggled[2] # <<>>
    /\ mitList = last.pre.toggled[2]

\* C12: rs.minSepLines never holds a line from an aircraft to itself nor two
\* lines of the same unordered pair; and a Shift-click (Control up) on an
\* aircraft c while another aircraft s is selected appends the line <<s, c>>
\* when the list has no line of the pair {s, c}, and leaves the list alone
\* when it has one.
C12_OneMinSepLinePerPair ==
    /\ \A i \in 1..Len(minSepLines) : minSepLines[i][1] # minSepLines[i][2]
    /\ \A i, j \in 1..Len(minSepLines) :
          i # j => ~OfPair(minSepLines[i], minSepLines[j][1], minSepLines[j][2])
    /\ (MouseDone /\ last.mouse.shift /\ ~last.mouse.control
          /\ ClickedOf(last.mouse) # Nil
          /\ selectedAircraft \notin {Nil, ClickedOf(last.mouse)}) =>
          LET c == ClickedOf(last.mouse)
              old == last.pre.minSepLines
          IN minSepLines =
                IF \E i \in 1..Len(old) : OfPair(old[i], selectedAircraft, c)
                THEN old
                ELSE Append(old, <<selectedAircraft, c>>)

\* C12's case: a Shift-click on c with s selected while the list holds the
\* line of the pair the other way round
C12_Witness ==
    /\ MouseDone /\ last.mouse.shift /\ ~last.mouse.control
    /\ ClickedOf(last.mouse) # Nil
    /\ selectedAircraft \notin {Nil, ClickedOf(last.mouse)}
    /\ <<ClickedOf(last.mouse), selectedAircraft>> \in Range(last.pre.minSepLines)
    /\ Len(minSepLines) >= 2

\* C13: a Shift-click (Control up) on an aircraft c when c is the selected
\* aircraft or none is selected removes the lines of rs.minSepLines that end
\* at c and the lines of rs.rangeBearingLines anchored at c, keeps the other
\* lines in their order, and changes neither rs.mitList nor the selected
\* aircraft, and posts no event.
C13_ShiftClickPurgesLines ==
    (MouseDone /\ last.mouse.shift /\ ~last.mouse.control
       /\ ClickedOf(last.mouse) # Nil
       /\ selectedAircraft \in {Nil, ClickedOf(last.mouse)}) =>
        LET c == ClickedOf(last.mouse)
            pre == last.pre
        IN /\ minSepLines = WithoutLinesOf(pre.minSepLines, c)
           /\ rangeBearingLines = WithoutAnchor(pre.rangeBearingLines, c)
           /\ mitList = pre.mitList
           /\ selectedAircraft = pre.selectedAircraft
           /\ eventStream = pre.eventStream

\* C13's case: the click purges a line of either kind and keeps another
C13_Witness ==
    /\ MouseDone /\ last.mouse.shift /\ ~last.mouse.control
    /\ ClickedOf(last.mouse) # Nil
    /\ selectedAircraft = ClickedOf(last.mouse)
    /\ Len(last.pre.minSepLines) = 1
    /\ Len(last.pre.rangeBearingLines) = 2
    /\ minSepLines = <<>>
    /\ Len(rangeBearingLines) = 1

\* C14: a primary click with neither Shift nor Control down posts one
\* SelectedAircraftEvent, naming the clicked aircraft (nil when there is
\* none), to every subscriber and changes none of rs.minSepLines,
\* rs.rangeBearingLines, rs.mitList; and when PositionConfig.Update has
\* drained a queue that held such an event, positionConfig.selectedAircraft
\* is the aircraft the last event posted names.
C14_PlainClickSelects ==
    /\ (MouseDone /\ ~last.mouse.shift /\ ~last.mouse.control) =>
          /\ eventStream =
                [sub \in Subscribers |->
                    Append(last.pre.eventStream[sub],
                           Event("Selected", ClickedOf(last.mouse)))]
          /\ minSepLines = last.pre.minSepLines
          /\ rangeBearingLines = last.pre.rangeBearingLines
          /\ mitList = last.pre.mitList
    /\ (last.op = "Update"
          /\ \E i \in 1..Len(last.pre.eventStream["pc"]) :
                last.pre.eventStream["pc"][i].type = "Selected") =>
          /\ hist.posted = {selectedAircraft}
          /\ eventStream["pc"] = <<>>

\* C14's case: Update drains the event of a click on no aircraft while an
\* aircraft is selected
C14_Witness ==
    /\ last.op = "Update"
    /\ \E i \in 1..Len(last.pre.eventStream["pc"]) :
          last.pre.eventStream["pc"][i].type = "Selected"
    /\ last.pre.selectedAircraft # Nil
    /\ selectedAircraft = Nil

\* -------------------------------------------------------------- point-outs
\* C16: when processEvents has recorded a PointOutEvent for an aircraft the
\* pane has a state for, or the aircraft's entry of rs.pointedOutAircraft
\* has run out, the state's datablockTextCurrent is false.
C16_PointOutInvalidatesText ==
    (last.op \in {"PointOut", "Expired"} /\ last.ac \in DOMAIN aircraft) =>
        ~aircraft[last.ac].datablockTextCurrent

\* ------------------------------------------------------- the click target
\* C15: the aircraft a primary click picks is the same whatever order the
\* two loops of consumeMouseEvents range over candidateAircraft in: for
\* every pointer position, all orders give one clickedAircraft.
C15_ClickTargetIsDetermined ==
    (pc = "consumeMouseEvents" /\ ctx.mouse) =>
        \A pos \in Pointers :
            Cardinality({ClickedOf(m) : m \in SceneClicks({pos}) \ {NoMouse}}) = 1

\* ------------------------------------------------- the automatic layout
\* the padded box of ac on screen when the store is `store`
OnScreenBox(store, ac) ==
    PaddedBounds(ac, store[ac].datablockAutomaticOffset)

NonOverlapping(store, acs) ==
    \A a, b \in acs :
        a # b => ~Overlaps(OnScreenBox(store, a), OnScreenBox(store, b))

LayoutDone == last.op = "layoutDatablocks"

\* C17: when the automatic layout runs again on a scene that has not
\* changed since its last run (no event, no drag) and whose padded labels
\* do not overlap, it leaves every automatic offset as it was.
C17_LayoutIdempotent ==
    (LayoutDone /\ last.pre.laidOut
       /\ NonOverlapping(last.pre.aircraft, DOMAIN last.run.auto)) =>
        \A ac \in DOMAIN aircraft :
            aircraft[ac].datablockAutomaticOffset =
                last.pre.aircraft[ac].datablockAutomaticOffset

\* C18: after a run of the automatic layout, no two labels marked placed
\* (by the first pass for their manual offset, or by the second pass) have
\* padded boxes on screen that overlap.
C18_PlacedLabelsKeepPadding ==
    LayoutDone =>
        NonOverlapping(aircraft, last.run.manual \cup last.run.greedy)

\* C18 as the code has it: after a run of the automatic layout, the padded
\* box of a label the second pass placed overlaps the padded box of no
\* other label marked placed.  (Two labels the first pass placed may
\* overlap each other.)
C18_GreedyLabelsKeepPadding ==
    LayoutDone =>
        \A a \in last.run.greedy : \A b \in last.run.manual \cup last.run.greedy :
            a # b => ~Overlaps(OnScreenBox(aircraft, a), OnScreenBox(aircraft, b))

\* C18's case: a run that placed a label in each of the two passes and
\* could not place a third
C18_Witness ==
    /\ LayoutDone
    /\ last.run.greedy # {}
    /\ last.run.manual # {}
    /\ DOMAIN last.run.auto \ (last.run.greedy \cup last.run.manual) # {}

\* C19: every run of the automatic layout ends: its relaxation loop makes
\* RelaxIterations iterations, and its pull-in loop comes to a pass that
\* moves no label (within MaxPasses passes).
C19_LayoutTerminates ==
    LayoutDone =>
        /\ last.run.iterations = RelaxIterations
        /\ last.run.done
        /\ last.run.passes <= MaxPasses

\* C19's case: the pull-in loop moved labels in several passes, and the run
\* ends with two labels still overlapping
C19_Witness ==
    /\ LayoutDone
    /\ last.run.done
    /\ last.run.passes > 2
    /\ ~NonOverlapping(aircraft, DOMAIN last.run.auto)

\* C20: the automatic offsets a run of the automatic layout leaves are the
\* same for every order sort.Slice may leave the aircraft in.
C20_LayoutIndependentOfOrder ==
    pc = "layoutDatablocks" =>
        Cardinality({AutoLayout(order).auto : order \in LayoutOrders}) = 1

\* --------------------------------------------------------- the MIT lines
\* drawMIT has just run in automatic mode
AutoMITDrawn ==
    /\ last.op = "drawTools"
    /\ ~ctx.thumbnail
    /\ AutoMIT
    /\ Len(mitList) = 0

\* the test the specification states for a trailing aircraft and a leader
InTrailOf(trailing, leader) ==
    /\ headingDifference(traffic[trailing].heading,
                         headingp2ll(traffic[trailing].x, traffic[leader].x)) < 150
    /\ Abs(traffic[trailing].altitude - traffic[leader].altitude) < 3000

\* C21: in automatic mode, the candidate drawMIT's scan accepts as the
\* leader of an arrival is one the arrival trails: the arrival's heading
\* is less than 150 degrees off the bearing from it to the candidate, and
\* the two altitudes are less than 3000 ft apart, whichever is the higher.
C21_AcceptedLeaderIsInTrail ==
    AutoMITDrawn =>
        \A pr \in last.mit.chosen : InTrailOf(pr[1], pr[2])

\* the arrivals bound for ac's airport that the test of drawMIT's scan
\* accepts for ac
Candidates(arr, ac) ==
    {c \in Range(arr) \ {ac} :
        traffic[c].airport = traffic[ac].airport /\ inTrail(ac, c)}
Distance(a, b) == nmdistance2ll(traffic[a].x, traffic[b].x)
\* the scan for ac produced a pair, and it joins ac to one of `cands` that
\* none of them is nearer than
JoinedToNearest(ac, cands) ==
    \E pr \in last.mit.chosen :
        /\ pr[1] = ac
        /\ pr[2] \in cands
        /\ \A c \in cands : Distance(ac, pr[2]) <= Distance(ac, c)

MITDrawn == last.op = "drawTools" /\ ~ctx.thumbnail

\* C23: the two aircraft of a line drawMIT has just drawn, in automatic or
\* in manual mode, are no pair of rs.rangeWarnings in either order, and no
\* pair of the warnings and violations GetConflicts returned in this frame.
C23_NoMITLineForConflictPair ==
    MITDrawn =>
        \A pr \in mitLines :
            /\ <<pr[1], pr[2]>> \notin rangeWarnings
            /\ <<pr[2], pr[1]>> \notin rangeWarnings
            /\ DrawRangeIndicators =>
                  {pr[1], pr[2]} \notin GetConflicts(ConflictCandidates, last.conflicts)

\* C23's case: in automatic mode the scan produced a pair that is in
\* conflict, and no line was drawn for it while one was for another pair
C23_Witness ==
    /\ AutoMITDrawn
    /\ DrawRangeIndicators
    /\ mitLines # {}
    /\ \E pr \in last.mit.chosen :
         /\ pr \notin mitLines
         /\ {pr[1], pr[2]} \in GetConflicts(ConflictCandidates, last.conflicts)

\* the pairs of aircraft the scan joins when the arrivals come in order arr
JoinedPairs(arr) == {{pr[1], pr[2]} : pr \in AutoChosen(arr)}

\* C24: in automatic mode, the pairs of aircraft drawMIT joins are the same
\* for every order getDistanceSortedArrivals may return the arrivals in.
C24_PairingIndependentOfOrder ==
    (pc = "drawTools" /\ AutoMIT /\ Len(mitList) = 0) =>
        Cardinality({JoinedPairs(arr) : arr \in getDistanceSortedArrivals}) = 1

\* ------------------------------------------------------ the conflict alert
\* C25: two playings of the conflict alert by the pane are more than
\* AlertInterval seconds apart, however many pairs are in violation and for
\* however many frames.
C25_AlertsAreSpaced ==
    Len(alerts) = 2 => alerts[2] - alerts[1] > AlertInterval

\* C25's case: the alert has been played twice, and in the frame just drawn
\* a pair is in violation and the alert was not played again
C25_Witness ==
    /\ Len(alerts) = 2
    /\ MITDrawn
    /\ DrawRangeIndicators
    /\ Violations(GetConflicts(ConflictCandidates, last.conflicts)) # {}
    /\ alerts[2] < clock

\* ------------------------------------------------------ the conflict pairs
\* C26: rs.rangeWarnings is symmetric: it holds <<x, y>> iff it holds
\* <<y, x>>, after every frame's conflict detection and at all other times.
C26_RangeWarningsSymmetric ==
    \A x, y \in Ids : (<<x, y>> \in rangeWarnings) <=> (<<y, x>> \in rangeWarnings)

\* C26's case: this frame's detection found a warning and a violation
C26_Witness ==
    /\ MITDrawn
    /\ DrawRangeIndicators
    /\ Warnings(GetConflicts(ConflictCandidates, last.conflicts)) # {}
    /\ Violations(GetConflicts(ConflictCandidates, last.conflicts)) # {}
    /\ rangeWarnings = BothOrders(GetConflicts(ConflictCandidates, last.conflicts))

\* conflict detection has just run on this frame's visible aircraft
Detected == MITDrawn /\ DrawRangeIndicators
\* the pairs of visible non-ghost aircraft level with each other, d nm apart
LevelPairs(d) ==
    {p \in Pairs : /\ p \subseteq NonGhosts(aircraft) \cap visibleNow
                   /\ p \subseteq DOMAIN traffic
                   /\ Vertical(p) = 0
                   /\ Lateral(p) = d}

ModifiedWithCRDA == last.op = "Modified" /\ CRDAEnabled

\* C30: after Modified(a) with ghost generation on, the ghost rs.ghostAircraft
\* had for a before the event has no state in the store, and a has a ghost
\* entry, with an isGhost state in the store, iff GetGhost returned a ghost
\* (then that one).
C30_ModifiedRecomputesGhost ==
    ModifiedWithCRDA =>
        LET a == last.ac
            old == last.pre.ghostAircraft
        IN /\ a \in DOMAIN old => old[a] \notin DOMAIN aircraft
           /\ (a \in DOMAIN ghostAircraft) <=> (last.ghost # Nil)
           /\ last.ghost # Nil =>
                 /\ ghostAircraft[a] = last.ghost
                 /\ last.ghost \in DOMAIN aircraft
                 /\ aircraft[last.ghost].isGhost

\* C30's case: an aircraft that had a ghost loses its eligibility
C30_Witness ==
    /\ ModifiedWithCRDA
    /\ last.ac \in DOMAIN last.pre.ghostAircraft
    /\ last.pre.ghostAircraft[last.ac] \in DOMAIN last.pre.aircraft
    /\ last.ghost = Nil

\* ------------------------------------------------------------------ C31
\* a primary click with Shift and Control both held has just been handled
ShiftControlClick ==
    /\ last.op = "consumeMouseEvents"
    /\ last.mouse.clicked /\ last.mouse.shift /\ last.mouse.control

UnderPointer == last.mouse.inside # Nil \/ last.mouse.near # Nil

ListsAndSelectionKept ==
    /\ mitList = last.pre.mitList
    /\ minSepLines = last.pre.minSepLines
    /\ rangeBearingLines = last.pre.rangeBearingLines
    /\ selectedAircraft = last.pre.selectedAircraft
    /\ eventStream = last.pre.eventStream

\* C31 as stated: a Shift+Control click copies the pointer position to the
\* clipboard only when no aircraft is under the pointer, and leaves the MIT
\* list, the MinSepLines, the RangeBearingLines and the selection as they were.
C31_CopyOnlyOffTarget ==
    ShiftControlClick =>
        /\ (last.clipboard # <<>> => ~UnderPointer)
        /\ ListsAndSelectionKept

\* C31: every Shift+Control click copies the pointer position to the
\* clipboard, an aircraft under the pointer or not, and leaves the MIT list,
\* the MinSepLines, the RangeBearingLines and the selection as they were.
C31_CopyAnywhere ==
    ShiftControlClick =>
        /\ last.clipboard = <<last.mouse.point>>
        /\ ListsAndSelectionKept

\* a Shift+Control click on an aircraft, with lines and an MIT list to keep
C31_Witness ==
    /\ ShiftControlClick
    /\ UnderPointer
    /\ last.clipboard # <<>>
    /\ Len(mitList) + Len(minSepLines) + Len(rangeBearingLines) > 0

\* ------------------------------------------------------------------ C32
\* the labels of the store that have been dragged
ManualLabels(store) ==
    {ac \in DOMAIN store : store[ac].datablockManualOffset # Zero2}

\* C32: a call of layoutDatablocks, in simple and in automatic mode, leaves
\* every aircraft's manual offset as it was; in automatic mode a label with
\* a non-zero manual offset has the same on-screen bounds after the run as
\* before it, and no label the run places (second pass) is put where its
\* padded box overlaps the padded box of such a label.
C32_LayoutKeepsManualLabels ==
    [][(pc = "layoutDatablocks" /\ pc' # pc) =>
          /\ DOMAIN aircraft' = DOMAIN aircraft
          /\ \A ac \in DOMAIN aircraft :
                aircraft'[ac].datablockManualOffset =
                    aircraft[ac].datablockManualOffset
          /\ last'.op = "layoutDatablocks" =>
                \A a \in ManualLabels(aircraft) :
                    /\ WindowDatablockBounds(aircraft'[a], scene[a].pw) =
                           WindowDatablockBounds(aircraft[a], scene[a].pw)
                    /\ a \in DOMAIN last'.run.auto =>
                          \A b \in last'.run.greedy \ {a} :
                              ~Overlaps(OnScreenBox(aircraft', b),
                                        OnScreenBox(aircraft', a))]_vars

\* C32's case: an automatic run with a dragged label in it that left
\* another label away from its ideal offset, and stays where it was dragged
C32_Witness ==
    /\ LayoutDone
    /\ last.run.manual # {}
    /\ \E b \in DOMAIN last.run.auto \ last.run.manual :
           /\ b \notin last.run.greedy
           /\ aircraft[b].datablockAutomaticOffset # Ideal(b)
    /\ \A a \in last.run.manual :
           aircraft[a].datablockManualOffset # Zero2

\* ------------------------------------------------------------------ C33
\* C33: a one-unit step of the pull-in loop is accepted only if, after it,
\* the padded on-screen box of the label that moved overlaps the padded
\* on-screen box of no other visible label, each label taken at the
\* automatic offset it has right after the step.
C33_AcceptedStepIsClear ==
    LayoutDone =>
        \A st \in last.run.steps :
            \A j \in DOMAIN st.auto \ {st.ac} :
                ~Overlaps(PaddedBounds(st.ac, st.auto[st.ac]),
                          PaddedBounds(j, st.auto[j]))

\* ------------------------------------------------------------------ C37
\* C37: when the relaxation and the pull-in of an automatic run are over,
\* the bounds recorded for every label the run did not mark placed are the
\* label's padded on-screen bounds under the automatic offset it has.
C37_RecordedBoundsFollowOffset ==
    LayoutDone =>
        \A ac \in DOMAIN last.run.auto \ (last.run.manual \cup last.run.greedy) :
            last.run.bounds[ac] = PaddedBounds(ac, last.run.auto[ac])

\* ------------------------------------------------------------------ C34
\* the sector of a heading of 0..359 under the table N = [345, 15),
\* NE = [15, 75), E = [75, 105), SE = [105, 165), S = [165, 195),
\* SW = [195, 255), W = [255, 285), NW = [285, 345)
SectorOf(h) ==
    IF h >= 345 \/ h < 15 THEN "N"
    ELSE IF h < 75 THEN "NE"
    ELSE IF h < 105 THEN "E"
    ELSE IF h < 165 THEN "SE"
    ELSE IF h < 195 THEN "S"
    ELSE IF h < 255 THEN "SW"
    ELSE IF h < 285 THEN "W"
    ELSE "NW"

\* the anchor of each sector and whether it is a corner: an edge midpoint
\* for N, E, S and W, a corner for the other four
SectorAnchor(bbox, sector) ==
    LET center == Center(bbox)
    IN CASE sector \in {"N", "S"} -> <<<<bbox.p0[1], center[2]>>, FALSE>>
         [] sector \in {"NE", "SW"} -> <<<<bbox.p0[1], bbox.p1[2]>>, TRUE>>
         [] sector = "E" -> <<<<center[1], bbox.p1[2]>>, FALSE>>
         [] sector = "W" -> <<<<center[1], bbox.p0[2]>>, FALSE>>
         [] sector \in {"SE", "NW"} -> <<<<bbox.p0[1], bbox.p0[2]>>, TRUE>>

\* C34: for every integer window heading h of -90..450, the anchor
\* datablockConnectP gives the layout is the anchor of the sector of
\* h mod 360 under the table: it depends on the heading only modulo 360.
C34_AnchorBySectorTable ==
    LayoutDone =>
        \A ac \in DOMAIN last.run.auto :
            LET bbox == Expand(aircraft[ac].datablockBounds, 5 * Unit)
                h == scene[ac].heading
            IN /\ h \in WindowHeadings
               /\ datablockConnectP(bbox, h) = SectorAnchor(bbox, SectorOf(h % 360))

\* ------------------------------------------------------------------ C35
\* C35: whatever events and mouse frames went before, when the drag block
\* of consumeMouseEvents runs with rs.acSelectedByDatablock set and the
\* button dragging, the store has a state for that aircraft: the call never
\* reads the state of an aircraft that has none.
C35_DragFindsState ==
    ~ /\ last.op = "panic"
      /\ last.mouse.dragging
      /\ last.pre.acSelectedByDatablock # Nil
      /\ last.pre.acSelectedByDatablock \notin DOMAIN last.pre.aircraft

\* ------------------------------------------------------------------ C36
\* the aircraft the annotations of the pane name
AnnotatedAircraft ==
    Range(mitList)
    \cup UNION {{l[1], l[2]} : l \in Range(minSepLines)}
    \cup {l.ac : l \in Range(rangeBearingLines)}

\* C36: when a frame is over, every member of the MIT list, every endpoint
\* of a MinSepLine and every anchor of a RangeBearingLine is an aircraft
\* that has a state in the store.
C36_AnnotationsHaveStates ==
    pc = "drawUI" => AnnotatedAircraft \subseteq DOMAIN aircraft

\* ------------------------------------------------------------------ C38
\* a drag step has just been handled: the aircraft dragged, or Nil
JustDragged ==
    IF last.op = "consumeMouseEvents" /\ last.mouse.dragging
    THEN last.pre.acSelectedByDatablock ELSE Nil

\* C38: a state with a non-zero manual offset has automatic offset (0,0),
\* in every state the frames, with their drags and layouts in either mode,
\* lead to; and a drag step with delta d leaves the label's on-screen bounds
\* d away from where they were.
C38_ManualMeansNoAutomatic ==
    /\ \A ac \in DOMAIN aircraft :
          aircraft[ac].datablockManualOffset # Zero2 =>
              aircraft[ac].datablockAutomaticOffset = Zero2
    /\ JustDragged # Nil =>
          WindowDatablockBounds(aircraft[JustDragged], scene[JustDragged].pw) =
              Offset(WindowDatablockBounds(last.pre.aircraft[JustDragged],
                                           scene[JustDragged].pw),
                     last.mouse.dragDelta)

\* C38's case: the drag of a label the layout had given an automatic
\* offset, which the drag takes over into the manual offset
C38_Witness ==
    /\ JustDragged # Nil
    /\ last.mouse.dragDelta # Zero2
    /\ last.pre.aircraft[JustDragged].datablockAutomaticOffset # Zero2
    /\ aircraft[JustDragged].datablockManualOffset # Zero2
    /\ aircraft[JustDragged].datablockAutomaticOffset = Zero2

\* C39: after any sequence of Activate, Deactivate and Duplicate calls,
\* every subscription a pane made is the one the pane holds in rs.eventsId
\* or has been unsubscribed, so that a pane has at most one live
\* subscription; neither a second Activate nor Duplicate followed by
\* Activate leaves a subscription behind
C39_NoSubscriptionLeaked ==
    \A p \in DOMAIN panes :
        created[p] \cap subscriptions \subseteq {panes[p].eventsId}
====
